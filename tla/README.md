# Verification of ng-console-api

TLA+ models of the server in `src/` (NestJS; MongoDB and PostgreSQL for state,
Google Cloud Storage for files, Kafka for messages, Stripe for payments), the TLC
runs that check them on small instances, and proofs about them for every
instance. Paths below are relative to `src/src/`.

The server keeps hardly any state in memory. What is hard about it lies between two
`await`s: a request reads a document, waits for a bucket, a mail server or Stripe,
and writes back what it made of a copy that may be stale by then. No handler takes
a lock or starts a transaction, and no failure is undone. The models are therefore
built from requests that are cut at every awaited call and interleave freely.

## The system

| Component | State it keeps | Operations that change it |
|---|---|---|
| Document signing and sharing (`documents/`) | the `Document` record (status, parties, external token and its expiry, share token) and the PDF in the bucket | `signDocument`, `inviteToSign`, `signExternal`, `generateShareToken`, `deleteDocument` |
| Document storage and search (`documents/`, `ai/`) | the record, the object, the chunks with their embeddings, the copy in Google Drive | `uploadFile`, `generateDocument`, `syncToGoogleDrive`, `deleteDocument`; read by the download and by the assistant's `searchDocuments` |
| Payments (`payments/`) | the Stripe fields of the account | `createCheckoutSession`, `verifySession`, `handleWebhook` |
| Users (`users/`) | accounts and, as a second document, their settings | `createUser`, `updateUser`, `deleteUser`, `updateTwoFactor` |
| Authentication (`auth/`) | two-factor secret and flag of the account; tokens are signed, not stored | `signIn`, `googleLogin`, `generateTwoFactorAuthSecret`, `turnOnTwoFactorAuthentication`, `authenticate2FA` |
| Chat (`chat/`) | rooms, memberships and messages in PostgreSQL; the sockets' rooms in memory | `createRoom`, `addMembersToRoom`, `saveMessage`, `updateLastRead`, `renameRoom`, `deleteRoom`, the gateway's connect, `sendMessage`, `markAsRead` |
| Tickets (`tickets/`) | tickets and comments in PostgreSQL | `create`, `update`, `remove`, `addComment`, `bulkUpdateStatus` |
| Kafka client (`kafka/`) | connections; consumer offsets live in the broker | `produce`, `consume` |
| Notifications (`notifications/`, `ws/`) | notifications and read states | the consumer of `ticket.assigned`, `send`, `sendSystemNotification`, `markAsRead` |
| Email (`email/`) | none | the consumer of `email.notification`, `user.created`, `subscription.activated` |
| Audit log (`audit/`) | audit entries with an expiry date, the retention days and a cached copy of them | `logAction`, the consumer of `audit-logs`, `setAuditRetentionDays` |
| Integrations (`integrations/`) | Drive token and flag in the user's settings | `handleGoogleDriveCallback`, `disconnectGoogleDrive` |
| Customers (`customers/`) | customers with a parent, in PostgreSQL | `create`, `update`, `remove` |
| Posts (`posts/`) | posts and their ids in the user | `createPost` |
| AI assistant (`ai/`) | none of its own; reads chunks, changes tickets through a tool | `generate`, the tools, `embedText` |
| Response cache (`app.module.ts`) | GET responses by URL for a short time | the global `CacheInterceptor` |
| PDF templates, GraphQL, bootstrap | none | |

How they interact:

- Every service calls `AuditProducerService.logAction`, which produces to `audit-logs`
  and never fails its caller; the consumer stores the entry and emits a local event
  for the sockets.
- `TicketsService` produces `ticket.assigned`, which `NotificationsService` consumes;
  it stores and broadcasts a notification and produces `email.notification`, which
  `EmailService` consumes. `UsersService` and `PaymentsService` produce
  `user.created` and `subscription.activated` for it too.
- `DocumentsService` sends invitations through `EmailService` directly, embeds
  chunks through `AiService`, and reads Drive settings through `UsersService`.
- `PaymentsService` and `IntegrationsService` write the account through
  `UsersService.updateUser`.

What makes each component correct, and why that is hard:

- **Signing**: what the record says about signatures is true of the PDF; an
  acknowledged signature is not lost; the status only moves forward; the link that
  works is the one the recorded invitee holds. Hard, because the record and the PDF
  are two stores, each rewritten whole from a copy, by requests that overlap and
  fail between the two writes.
- **Storage**: no record without object, no object without record but for failures and
  signatures that a deletion overtakes, no deleted document in a search, all chunks of a
  document marked as processed. Hard, because of failures half way and deletions meanwhile.
- **Payments**: a subscription belongs to its buyer, the stored status is Stripe's,
  every purchase is announced. Hard, because Stripe delivers events late, repeatedly
  and out of order, and a second path (`verifySession`) writes the same fields.
- **Notifications and email**: no message lost, repeats bounded, order kept, every
  assignment mailed. Hard, because handlers throw and consumers crash between an
  effect and the commit of the offset.
- **Users, authentication, integrations, posts**: one settings document per account;
  a second factor whose secret was confirmed and is still the user's; no Drive
  synchronisation after disconnecting, until it is asked for; a failed first login can be
  repeated. Hard, because each is read, checked and written in separate steps.
- **Chat**: one membership per user and room; nothing left of a deleted room; the
  sender of a message receives it. Hard, because sockets remember rooms
  that the database has changed.
- **Tickets**: the assignee that is stored is the one that was told; comments and
  removals stay. Hard, because updates compare with a stale copy and save all of it.
- **Audit, assistant**: every step of the assistant is on record, in order, and kept as
  long as configured. Hard, because failures are swallowed at both ends, consumers
  crash, and the setting is cached per process.
- **Customers**: the parent relation is a forest. Hard, because no update checks it.
- **Cache**: a response is at most as old as the cache's lifetime.

`PROJECT.json` lists these hazards at the lines where they bite, and for each the
properties that cover it, or why none does.

## Modules

| Module | Models |
|---|---|
| `SigningWorkflow` | abstract: the stages of one document and the stamps on its PDF |
| `DocumentSigning` | the five requests that change a stored document |
| `Billing` | `PaymentsService` with Stripe as its environment |
| `Notices` | from a ticket's assignment to the mail, through two consumer groups |
| `ChatRooms` | `ChatService` and `ChatGateway`: one room, its rows and its sockets |
| `DocumentStorage` | documents from upload to deletion: bucket, records, searchable chunks, Drive |
| `AuditTrail` | the audit log's topic, consumer and retention setting, for the modules that extend it |
| `Assistant` | `AiService`'s answers and tools, with `AuditTrail` as their log |
| `Tickets` | `TicketsService`: one ticket, its comments, its announcements |
| `Accounts` | one account with settings, Drive link, posts and second factor: `UsersService`, `AuthService`, `IntegrationsService`, `PostsService` |
| `MC_...` | the same, with symmetry sets for TLC |
| `..._proofs` | theorems about the module of that name and their proofs; those about `AuditTrail` are in `Assistant_proofs` |

A definition named "Faulty variant" is a mistake one could make in the definition
that follows it. No next-state relation uses it: it is there to confirm that the
properties notice that mistake.

### DocumentSigning

One document, from the moment `uploadFile` or `generateDocument` has stored it. A
request is a process that runs once. `SignRequest`, `InviteRequest`,
`ExternalRequest`, `ShareRequest` and `DeleteRequest` are the code of a handler up to
its first write or download, with its checks as guards; the other actions are one
awaited call each, with the code around it:

| Handler | Actions |
|---|---|
| `signDocument` | `SignRequest`, `Download`, `Upload`, `SaveSigned`, `Reply` |
| `inviteToSign` | `InviteRequest`, `SaveInvitation`, `SendInvitation`, `Reply` |
| `signExternal` | `ExternalRequest`, `Download`, `Upload`, `SaveCountersigned`, `Reply` |
| `generateShareToken` | `ShareExisting`, or `ShareRequest`, `SaveShared`, `Reply` |
| `deleteDocument` | `DeleteRequest`, `EraseFile`, `RemoveRecord`, `Reply` |
| any | `Abort`: an awaited call throws or the process dies |

- `record` is the MongoDB document, `seen[r]` the copy request `r` works with.
  Mongoose saves only the paths a request changed: `Stored` writes a path only when
  its new value differs from the copy's. This matters: two overlapping invitations to
  one address and to another leave a token and an address that do not belong
  together.
- `file` is the object in the bucket. Of the PDF the model keeps whose stamps are on
  it; `drawn[r]` is the copy a request has in memory.
- Tokens are named by the request that made them; `TokenExpires` stands for the
  seven days of `externalTokenExpires`. Party B only knows tokens that were mailed.
- A request that is refused changes nothing and is left out. `save()` of a record
  that is gone throws, which is `Abort`; so is a download of an object that is gone.
- `isSigned`, sizes, names, mail texts and the quota of a plan are left out: no
  property here depends on them. Audit entries, local events and the notice to the
  uploader change no state of this module; they come after the last write (`Reply`).
- `overlaps` is a history variable: which kinds of request were ever in progress
  together. The properties use it to name exactly the interleavings under which they
  fail: with any of these conditions dropped there is a counterexample. The proof found
  one of them, for Party B's part of `AcknowledgedSignatureIsKept`: when invitations
  overlap, the later save reopens a fully signed document for another counter-signature.
  It takes five requests to see that, one more than the `signing` run has.

### Billing

`account` holds the Stripe fields of `schemas/user.schema.ts`. A call is a request
cut at its awaits; `createCheckoutSession` is `BeginCheckout`, `CreateCustomer`,
`LinkCustomer`, `OpenSession`; `handleWebhook` is `Deliver` (parse the event and look
up the account), `StoreEvent`, `Announce`, `Answer`; `verifySession` is `Verify`,
`StoreVerified`. `Fail` lets any of them throw at any point. Stripe is external:
`CompleteCheckout` and `ChangeSubscription` emit events with the status at the time
they are emitted, and any emitted event may be delivered at any time, again and to
two calls at once. `newest`, `late` and `raced` are history variables. The plan is
written together with the subscription and is not modelled; `getPlans`,
`createPortalSession`, `getSubscriptionDetails` and `getInvoices` change nothing here.
Accounts are never deleted in this module: that an event for an account that is gone is
answered with success, and changes and announces nothing (`payments.service.ts:268`), is not
modelled, and `CompletedIsAnnounced` speaks of accounts that stay.

### Notices

`ticket.assigned` and `email.notification` are sequences, one partition each. Per
consumer group the model has the offset its consumer handles next (0 while it has no
consumer) and began at, the offset the group committed (0 before the first commit), and
how far its handler is: `Store`, `Broadcast`, `QueueMail` are
`NotificationsService.send`, `SendMail` is `EmailService.sendNotificationEmail`.
`Join`, `Resolve`, `Commit`, `Throw`, `Crash` model the kafkajs runner and the broker as
the services use them: `consumer.service.ts` sets no option, so offsets are committed
automatically after a handler has returned, and a handler that throws is given its
message again. A consumer that joins begins at the committed offset; if its group has
none, at the end of the topic, because no subscription says `fromBeginning`. What it then
leaves unhandled is lost for that group, and the history variable `skipped` keeps it. The
properties except exactly that: an assignment made before the notifier's first commit,
and a mail queued before the mailer's, may never be sent, if no consumer was there yet or
it crashed before it committed. From the first commit on nothing is skipped, which
`CommittedIsHandled` says too. A group may be new at the start, or have committed. Whether a
user wants mails is fixed (`Subscribers`). Not modelled: `TICKET_ASSIGNED` messages
that cannot be parsed, topics other than these two, the other messages of
`email.notification`, and the `produce` in `TicketsService.update` failing, which only
logs (then there is no message).

### ChatRooms

One room. `room`, `members`, `messages` are its rows in PostgreSQL; `joined` are the
users whose socket is in the room. As in `DocumentSigning` a request runs once, cut at
its awaits:

| Handler | Actions |
|---|---|
| `createRoom` | `CreateRequest`, `SaveRoom`, `SaveMembers`, `Reply` |
| `addMembersToRoom` | `AddRequest` (is the requester a member?), `LoadRoom`, `SaveMembers`, `Reply` |
| `handleConnection`, `handleDisconnect` | `Connect` (the rooms are listed), `JoinListed`; `Disconnect` |
| `handleSendMessage` | `SendRequest`, `CheckSender`, `InsertMessage`, `EmitMessage` |
| `handleMarkAsRead` | `MarkRequest`, `FindRow` or `FindNoRow`, `SaveRow`, `Reply` |
| `renameRoom` | `RenameRequest`, `SaveRenamed`, `Reply` |
| `deleteRoom` | `DeleteRequest`, `DropMembers`, `DropMessages`, `DropRoom`, `Reply` |

What the code relies on from outside: the foreign keys of `entities/` (`onDelete:
'CASCADE'`, `roomId` not null), so that members and messages need their room and go with
it; and TypeORM's `save`, which updates an entity or inserts it if its row is gone, and,
because of `cascade: true`, saves the members that were loaded with a room. `renameRoom`
loads them although it only sets the name, so it writes back each `lastReadAt` it read;
a member added since would be detached, which the not-null column refuses, and the
request fails. Each `save` is atomic here (it is a transaction), and the clocks of the
server and the database agree: time is counted in inserted messages, which is all
`hasUnread` compares. The room may exist at the start, or be created by a request. Names,
`joinedAt` and the users' details are left out, and so is the read receipt, which
changes nothing. The list of ids in a request body is not validated: `Bodies` tells it by
how often each user is named. `createRoom` removes repeated ids, `addMembersToRoom` does
not and inserts a row for each, which `nth` tells apart (`Doubled` says of two rows that
they came from one such request). `updateLastRead` and `getRoomsForUser` take any row of
the user: with doubled rows a room that was marked may be shown as unread still, and what
holds is that one of the rows carries the mark. No property says that nobody else hears
the messages of a room: the gateway joins the socket before it checks the membership.
Roles are not modelled: anybody may rename or delete. A
broadcast reaches the sockets at once: the Redis adapter between processes is not modelled.

### DocumentStorage

A document is named by the request that stored it; `Earlier` is one that was there
before, or had been deleted. `objects` is the bucket, `records` the documents in
MongoDB, `processed` those with `isRagProcessed`, `chunks` the `DocumentChunk`s (which
part of which text), `drive` what was copied to Google Drive.

| Handler | Actions |
|---|---|
| `uploadFile` | `StoreRequest`, `SaveObject`, `SaveRecord`, or `SaveRecordAndParse` and `SaveChunk`... with `MarkProcessed` or `GiveUpChunks`; `Reply` |
| `generateDocument` | `StoreRequest`, `SaveObject`, `SaveRecord`, `Reply` |
| `downloadDocument` | `DownloadRequest` (the record is found), `Stream` |
| `syncToGoogleDrive` | `SyncRequest`, `CopyToDrive`, `Reply` |
| `signDocument`, `signExternal` | `SignRequest`, `FetchObject`, `OverwriteObject`, `SaveSigned`, `Reply` |
| `deleteDocument` | `DeleteRequest`, `EraseObject`, `RemoveRecord`, `Reply` |
| the tool `searchDocuments` | `SearchRequest`, `FindChunks`, `Populate`, `Reply` |
| any | `Abort` |

`ChunkText` is `chunkText` on positions: which part of the text each chunk has, not its
characters. The loop that advances by `Stride` is written in closed form. Similarity is any choice of the best `TopHits` among the chunks whose
document was found. Parsing, embedding, storing and marking may each fail, which the
upload swallows (`GiveUpChunks`). Deleting does not remove chunks; the search drops them
because `populate` finds no document. Signing reads the object and stores it again under
its key; who may sign when, and what stamps the PDF has, is `DocumentSigning`'s. The
history variable `raced` has the documents that requests in progress together signed and
deleted: there the object may come back after its record is gone. The link to Drive is
`Accounts`'; who may see which document, file names, plans' quotas and audit entries are
left out.

### AuditTrail and Assistant

`AuditTrail` has no specification of its own: `AuditInit`, `AuditNext` and `LogAction`
are for a module that extends it and adds the callers. `topic` is the one partition of
`audit-logs`; `entries` are the stored `AuditLog`s with the days their `expiresAt`
allows; `settings` the documents of `SystemSettings`; per server `state` says how far
`onModuleInit` has come and `cached` is `cachedRetentionDays`.

| Code | Actions |
|---|---|
| `AuditProducerService.logAction` | `LogAction`: appended, appended twice (the client retries), or lost; the caller does not notice |
| `AuditConsumerService.onModuleInit` and its handler | `Assign`, `Store`, `StoreFails` |
| `SystemSettingsService.onModuleInit` | `Start`, `LoadSettings`, `FindNoSettings`, `CreateSettings` |
| `setAuditRetentionDays` | `ChangeDays` (the document is read), `SaveDays`, `CacheDays`, `ChangeFails` |
| the kafkajs runner and group | `Commit`, `Crash`, and where `Assign` begins |

The consumer starts while the settings may still be loading, so an entry may be stored
with the default days. A group without a committed offset begins at the end of the
topic, because `consumer.service.ts` does not ask for the beginning: what came before is
in `skipped`. A change that saves the days the document already has writes nothing
(Mongoose). `stale` is a history variable: servers that have no way to know the stored
days.

`Assistant` is `AiService.generate` with `runGenerate` and the six tools: `Ask`,
`LogPrompt`, `Classify`, `CallTool`, `LogTool`, `RunTool`, `Finish`, `Overloaded` (the
quota is exhausted and an apology is the answer), `LogAnswer`, `Abort`. `logAction` is
awaited there, and the model is what it chooses to do. Tools are called one after the
other here; the library may run several calls of one turn in parallel, whose events then
mix, each still before its own call. Tools of MCP servers and `getFileAnalytics` log
nothing and change nothing modelled; pictures and texts are left out.

### Tickets

One ticket. `row` is its assignee and status, `comments` the comments that refer to it,
`detached` those whose reference was set to null.

| Handler | Actions |
|---|---|
| `create` | `CreateRequest`, `InsertRow`, `Reply` |
| `update` | `Request`, `FindOne` or `FindNone`, `Save`, `Announce`, `Reply`, and on its own `Produced` or `ProduceFails` |
| `remove` | `Request`, `FindOne` or `FindNone`, `DeleteRow`, `Reply` |
| `addComment` | `Request`, `FindOne` or `FindNone`, `InsertComment`, `Reply` |
| `bulkUpdateStatus` | `BulkRequest`, `WriteStatus`, `Reply` |

The code relies on TypeORM's `save`: it compares the entity with the row there is at that
moment and writes every column that differs, inserts the entity if its row is gone, and,
since `findOne` loads the comments, sets the reference of all others to null (the column
is nullable). The foreign key deletes comments with their ticket. Of the columns the
model has two, one that is announced and one that is also written by the bulk update; the
others behave like the status. An assignee given at creation is not announced, because
`create` produces nothing. `Notices` has what becomes of an announcement; `told` is all
of it that matters here.

### Accounts

The account of one e-mail address: `account` is the `User` document with its settings
reference, posts, two-factor secret and flag; `settings` are the `UserSettings` documents
by the request that stored them.

| Handler | Actions |
|---|---|
| `createUser` | `CreateRequest`, `SaveSettings`, `SaveAccount` or `SaveDuplicate`, `Announce`, `Reply` |
| `signIn` | `LoginRequest`, `FindByEmail` or `FindNobody` |
| `googleLogin` | `LoginRequest`, `FindByEmail`, or `FindNobody` and `createUser` from `SaveAccount` |
| `authenticate2FA` | `EnterCode`, `CheckCode` |
| `updateUser`, also through `handleGoogleDriveCallback` and `disconnectGoogleDrive` | `UpdateRequest`, `GetToken` (callback), `FindSettings`, `ChangeSettings` or `AddSettings`, `UpdateAccount`, `Reply` |
| `deleteUser` | `DeleteRequest`, `RemoveAccount`, `Reply` |
| `createPost` | `PostRequest`, `FindAuthor`, `SavePost`, `PushPost`, `Reply` |
| `generateTwoFactorAuthSecret` | `GenerateRequest`, `StoreSecret`, `Reply` (the user is shown the secret) |
| `turnOnTwoFactorAuthentication` | `TurnOnRequest`, `VerifyCode`, `Enable`, `Reply` |

Passwords and Google tokens are good ones; a code belongs to a secret the user was shown,
and is tried once. Logins look for the e-mail only. The unique index on the e-mail refuses
a second account (`"refused"`); the one on the username refuses a creation, also by a first
Google login, if an account of another e-mail has the name (`"name taken"`). Other
accounts are not modelled, so this may happen whenever an account is to be saved; a first
Google login whose name is taken fails however often it is tried.

The settings form (`PATCH /users/:id`) may set the Drive token and flag, too: `Forms` says
how. One that does links Drive as connecting does, and has a kind of its own, `"link"`; one
that leaves Drive out, or switches it off, is `"settings"`. `findByIdAndUpdate` of an account
that is gone changes nothing. Google may leave out the refresh token, and the
synchronisation is enabled all the same.

A login ends `"ok"` with a final token, or at `"code"` with one that is marked as waiting for
a code and lives for five minutes. `CodeIsAsked` is about what logins answer, no more.
`AuthGuard` verifies a token and does not look at the mark, so that guarded routes accept
either, among them `verifySession`, which renews a token. What the second factor is worth at those
routes is not modelled, and nothing is claimed of it.

Not modelled: requests that guards refuse, roles, the other fields of the profile and of
the settings (written as given), the Stripe fields (`Billing`), and a flag switched off (no
handler does).

## Runs

| Run | Shows |
|---|---|
| `signing` | However four requests interleave and fail: a status other than draft is backed by Party A's stamp (`SignedMeansStamped`) and, when fully signed, by Party B's (`FullySignedMeansCountersigned`); an acknowledged signature stays (`AcknowledgedSignatureIsKept`); the status never falls back (`StatusNeverFallsBack`); the link that works was mailed to the recorded address (`InviteeHoldsTheLink`), dies with the last signature (`SignedDocumentHasNoLink`); share links that were handed out work (`ShareLinkWorks`); deletion leaves no PDF (`DeletedMeansErased`). Only the first holds unconditionally; the others name the overlap that breaks them. |
| `signing_refinement` | Without the overlaps in `Conflicts`, every step of the requests is a step of `SigningWorkflow` or changes nothing there. |
| `signed_twice` | Two overlapping `signDocument` requests both succeed. The status is checked on the copy and written after the upload; the service's own message and its test say a signed document is not signed again. A code bug, listed under "findings". |
| `billing` | A subscription is linked only to its buyer; each session belongs to the customer stored for its user, unless two first checkouts overlapped; once all events are answered the stored status is Stripe's, unless an older event was stored after a newer one, or the user has a second subscription or customer. |
| `billing_liveness` | Every completed checkout is announced on `subscription.activated` in the end. |
| `notices` | What a group is past, or goes on behind, was handled to the end (`CommittedIsHandled`); notifications and mails are repeated at most once per failure (`RepeatsNeedFailures`); mails are queued after their notification and in order, even after a consumer went back (`MailsKeepTheOrder`); every assignment of a subscriber is mailed (`AssignmentIsMailed`). All but the second except what a group without a committed offset began behind. |
| `chat_rooms` | A user is a member once, but for a request that names somebody twice (`OneMembership`), nothing is left of a deleted room (`DeletedRoomIsGone`), members stay until a deletion (`MembersAreKept`), what was marked stays read (`MarkedStaysRead`), a sender's own socket gets the message (`SenderHears`), and a room has somebody to see it (`RoomIsReachable`). `Clashes` are the six overlaps that break one or another of them; each condition is needed. |
| `storage` | Whatever fails and whatever overlaps: a record has its object until its deletion begins, and an object without record is due to an upload that has not ended or has failed, or to a signature that was in progress together with the deletion (`StoresAgree`); in a processed document every passage of up to `Overlap` + 1 characters lies in one chunk (`PassagesAreWhole`); a search shows no document that was deleted before, and the chunks such a document leaves take no place from others (`SearchIsCurrent`). |
| `generated_backup` | A generated document is never copied to Drive unless a request asks for it; the README of the repository promises automated backups of all generated documents (`README.md:38`). A divergence of text and code, listed under "findings". |
| `assistant` | What the assistant does is sent to the log first (`AssistantIsAudited`); the log has the steps of a question in order (`LogTellsTheStory`); what the consumer group is past is stored (`NothingIsPassedOver`); entries are kept for the stored days (`KeptAsConfigured`). The first three fail only for events whose production or storing failed, or that came before the group's first offset; the last only while a server starts, after another server's change, or for overlapping changes. |
| `tickets` | The stored assignee is the one last told (`AssigneeIsTold`), acknowledged comments and removals stay (`AcknowledgedStays`), columns change only as some request asked (`ChangesAreAsked`). `Clashes` are the overlaps, each with an update, that break them; each condition is needed. |
| `accounts` | Settings documents belong to the account (`SettingsAreReachable`); Drive stays disconnected until somebody asks to link it, and posts stay listed (`AcknowledgedIsKept`); a first Google login can be repeated and is refused at most for its username, logins answer with a final token only after a code once there is a second factor, and its secret is one the user has (`LoginsAreAnswered`); it is enabled with the secret that was confirmed (`TwoFactorIsConfirmed`). Again each condition on overlaps is needed. |

### Bounds

- `signing`: four requests of any kinds, so that two can overlap after a third and
  before a fourth (a full signing takes three: sign, invite, countersign); three
  users (owner, staff, other), two addresses, a PDF or another file. Requests and
  addresses are interchangeable, so symmetry is sound; the properties mention none
  by name. About 574,000 states.
- `signing_refinement`: one address suffices, the workflow does not tell them apart.
- `billing`: two users, two sessions, two customers and two calls at once, three
  events and one failure: enough for a checkout and two changes delivered in any
  order, for two checkouts of one user, and for one checkout each. No property that
  is checked under symmetry is a liveness property. `RoomForCheckout` keeps
  checkouts from running out of customers and sessions.
- `billing_liveness`: one user, two sessions, two calls, two events, one failure.
- `notices`: two assignments, so that one can be skipped before the other is handled, and
  three failures, so that a consumer can go back over both and a queued mail be repeated
  behind a newer one. About 540,000 states.
  Three assignments with two failures were checked, too (1.2 million states).
- `chat_rooms`: three requests on a room that may exist already, two users, each named by
  a request up to twice (`MaxNamed`): two rows of a user are enough for one to carry a mark
  and the other not. About 1.1 million states. Each property needs at most two requests
  that clash and a third, or a message before them; one exception takes four: a user who is
  added while a deletion stops half way, after having marked (the proof of
  `MarkedStaysRead` found it, and with it the clash of adding with deleting).
- `storage`: three requests, with an earlier document: an upload, a deletion during it and
  a search; lengths with no chunk, one, and several of which the last is shorter than
  `ChunkSize` (3, with `Overlap` 1 as 1000 and 200 in the code). One hit is enough for a
  left-over chunk to displace another. About 1.8 million states.
- `generated_backup`: two requests, the generation and any other.
- `assistant`: one question with one tool call, two servers, two changes of the days, and
  two troubles (`MaxTrouble` bounds failing calls, retries, crashes and changes
  together): a crash and a takeover, or a change that fails. Three troubles were checked
  once, too. About 770,000 states.
- `tickets`: three requests, two people, two statuses: two that clash and a third.
  About 420,000 states.
- `accounts`: three requests on one account, existing or not: two that clash and a third,
  which also suffices to generate a secret, confirm it and log in. A settings form says
  nothing of Drive, switches the flag off or on, or gives a token; all nine combinations
  were checked once, too (3.3 million states). About 1.6 million states.
- Deadlock is not checked: requests end and the bounds run out.

### Fairness

- `Billing!FairSpec`: a request that runs goes on (the event loop), and Stripe
  delivers an event again until the webhook answers it with success. Strong fairness,
  because a retry finds the server busy now and then but not for ever. `Fail` has no
  fairness and is bounded by `MaxFailures`: failures stop in the end.
- `Notices!FairSpec`: weak fairness of a group's handler, since the runner hands out
  the next message while there is one, and of joining: kafkajs restarts a consumer, or
  another process takes its place. Committing needs no fairness.
- `DocumentStorage!FairSpec`: weak fairness of the next step of a request that runs (the
  event loop), and none of making a request. It serves `generated_backup` only.
- The requests of `DocumentSigning`, `ChatRooms`, `DocumentStorage`, `Tickets` and
  `Accounts` promise nothing to happen: a request may always fail, and nobody retries
  it. No liveness is claimed there, nor of the audit log, which may lose any event.

## Proofs

Every safety property of the passing runs is a theorem, invariants and action
properties alike, and so is the refinement of `SigningWorkflow`: for all values of the
constants, finite or infinite, that satisfy the assumption of the module. TLC checked the
inductive invariants on the runs' instances before they were proved.

| Module | Theorems |
|---|---|
| `DocumentSigning_proofs` | `Typing`, `SignedIsStamped`, `CountersignedIsStamped`, `AcknowledgedIsKept`, `HandedLinkWorks`, `DeletedIsErased`, `SignedHasNoLink`, `LinkIsTheInvitees`, `StatusMovesForward`, `CalmImplementsWorkflow` |
| `Billing_proofs` | `Typing`, `SubscriptionIsTheBuyers`, `ChangesFindTheAccount`, `StatusIsStripes` |
| `Notices_proofs` | `NothingIsSkipped`, `RepetitionIsPaidFor`, `MailsAreInOrder` |
| `ChatRooms_proofs` | `Typing`, `MembershipsAreKept`, `DeletionIsComplete`, `SendersHear`, `RoomsAreReachable`, `MembersAreUnique`, `MarksLast` |
| `DocumentStorage_proofs` | `BucketAndDatabaseAgree`, `PassagesAreKeptWhole`, `SearchesAreCurrent` |
| `Assistant_proofs` | `Typing`, `QuestionsAreAudited`, `StoriesAreTold`, `NothingPassesUnseen`, `DaysAreAsConfigured` |
| `Tickets_proofs` | `AnswersStand`, `AssigneesAreTold`, `ChangesNeedRequests` |
| `Accounts_proofs` | `Typing`, `SettingsStayReachable`, `AcknowledgementsHold`, `LoginsSucceed`, `TwoFactorNeedsACode` |

`PROJECT.json` says what each establishes, and which property of a run it states.

### Assumptions

- `SigningAssumption`: the owner is a user, staff are users, `None` is no request and no
  address.
- `BillingAssumption`, `NoticesAssumption`, `AuditAssumption`, `AssistantAssumption`: `None`
  is nothing else, subscribers are users, the default days are among the days, bounds are
  numbers.
- `ChatAssumption`, `AccountAssumption`, `TicketAssumption`: `None`, `Nobody` and `Earlier`
  are nothing else; a request may name a user (`MaxNamed` is at least 1); settings forms
  give a token, a flag, both or neither.
- `StorageAssumption`: lengths are numbers, a search shows at least one hit, and
  `Overlap` < `ChunkSize`, without which the loop of `chunkText` would not end (200 and
  1000 in the code).

### How the proofs go

In every module the types come first, strengthened by what the control flow ensures: the
step a request is at belongs to its kind (`Fits`, `Begun`), and two requests in progress
that clash are noted in `overlaps` (`OverlapsNoted`). Together this is `CourseInv`, or
`TypeInv`. Lemmas about what a step of a request does to each store (`StepEffect`,
`Arrivals`, `AccountEffect`, ...) reduce the actions to the few ways in which they matter;
after that each property has an invariant of its own, since none of them is inductive:

- **`DocumentSigning`.** `SignedMeansStamped` depends on the copy that was drawn on and on
  the file at the time of the save. `StampInv` adds that a request about to upload holds a
  copy with a Party A stamp, that the file carries one when a signature is about to be
  saved, that invitations and counter-signatures in progress are about a document past the
  draft, and that signers of Party A read a draft. `StageInv` relates the status to how far
  each request is, `CounterInv` the file to a counter-signature in progress, `KeptInv` an
  acknowledged signature to the record, the file and every copy still to be uploaded.
  `ShareInv`, `EraseInv`, `NoLinkInv`, `InviteeInv` say what a request that is about to save
  or mail a token, or to upload, may still find. `CalmImplementsWorkflow` takes the steps
  of `CalmSpec` one by one; `CalmInv` adds that a copy of Party A differs from the file by
  its own stamp only, so that the upload is a `StampA`.
- **`Billing`.** `CustomerInv`: a customer belongs to one user wherever it is written.
  `FindInv`: a user whose checkouts did not overlap has at most one under way, which finds
  no customer or makes the user's only one. `StatusInv`: for events stored in their order
  the account shows the effect of the newest, which no answered event follows; the last
  event of a subscription tells the status Stripe has.
- **`Notices`.** `NotifierInv` and `MailerInv`: what lies before a group's position, or
  its committed offset, was handled or skipped. `GroupInv`: where a group is, and goes on,
  lies behind all it has skipped. `RepeatInv`: the count of a message ahead of the position
  is paid for by failures, one at or behind it has one more.
- **`ChatRooms`.** `HearsInv` and `ReachInv` follow the socket of a sender and the members
  from creation on. `GoneInv`, `OneInv` and `ReadInv` say of every row that was loaded and
  will be saved again what is true of the stored rows; where a user has several they are
  doubled, and one of them covers the mark.
- **`DocumentStorage`.** `ObjectsInv`: the object comes before its record and goes before
  it, unless a signature stores it again; `RacesInv`: one that does so while its record is
  deleted is in `raced`. `PartsInv`: each part of a text being chunked is stored or pending, together with a
  lemma about `ChunkText` that every passage of up to `Overlap` + 1 characters lies in one
  part, for any length. `AnswersInv`: what was gone when a search began stays gone.
- **`Assistant`, `AuditTrail`.** `AuditedInv`: a question has sent, or lost, what precedes
  its step. `OrderInv`: the prompt is first on the topic, repetitions of the answer last.
  `PassedInv`: what is behind the group's position, or before a stored entry, was dealt
  with earlier. `CacheInv`: what a server has cached while it starts, and while its changes
  run alone.
- **`Tickets`.** `KeptInv` and `GoneInv` relate the comments and the removal to what the
  updates have read. `ToldInv`: whom the topic names last, once what is on its way has
  arrived, is the assignee stored or read by an update. `ReadInv`: an update that is
  apart from others has read the row that is stored.
- **`Accounts`.** `FreshInv`, `OffInv`: settings an account does not refer to yet are
  unlinked, and a disconnecting apart from requests to link leaves the account so. `FirstInv`,
  `GuardInv`, `SecretInv`: a first login finds nobody, a second factor stays asked for, its
  secret was shown or is about to be. `ReachInv`: each settings document is the account's,
  or still its request's.

### Only model-checked

- Liveness: `CompletedIsAnnounced` and `AssignmentIsMailed`, which rest on fairness.
- The two properties that the code does not have (`SignedOnce`, `GeneratedIsBackedUp`):
  their runs show counterexamples.

## Not modelled

- `documents/document-generators.ts`: draws the pages of a PDF in a straight line; no
  state, no decision a property could be about.
- `customers/`: each operation reads and writes one row. That parents form no cycle is
  checked nowhere and promised nowhere.
- The response cache: the interceptor is a library's, configured with a lifetime; no code
  here reads, fills or invalidates it.
- GraphQL resolvers, bootstrap, metrics and tracing: wiring around the services above.
- `sanitizeToolSchemas`, MCP tools and `getFileAnalytics` of the assistant: they rewrite
  schemas or read.
- `sendSystemNotification` and `markAsRead` of the notifications, the consumers of
  `user.created` and `subscription.activated`: one write or mail each, by a handler of
  the shape that `Notices` has.
- Read-only queries and pages of them, everywhere; the language model, embeddings, Google
  and Stripe as such.

## Plan

The modules that were planned are written, and the safety properties of their runs are
proved. Left:

1. Properties of `SigningWorkflow` itself (no claim without its stamp, stages in order), so
   that `CalmImplementsWorkflow` hands them down.
2. Shorter proofs for `Accounts` and `Billing`: what their case splits by action repeat
   belongs into lemmas about the stores.

No module uses a `RECURSIVE` operator, so that all of them can be proved about.
