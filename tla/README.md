# YappChat in TLA+

Specifications, model-checking configurations and proofs for the server side of
YappChat: the services under `src/apps/web/src/lib`, the WebSocket engine
`src/apps/web/src/server/ws.ts` and the remote-control helper agent
`src/apps/agent`. Every definition is translated from the code; `PROJECT.json`
maps each one to the lines it stands for.

## The system

A Next.js application serves API routes which call *services*: modules of async
functions over one PostgreSQL database (Drizzle). A separate Node process, the
*engine*, holds the WebSocket connections. Services reach the engine by a
best-effort HTTP POST with a two-second timeout (`lib/ws/broker.ts`); the engine
appends events to a five-minute log and routes them to subscribed connections.
Browsers, the mobile and desktop shells and the helper agent are its clients.

What makes this code hard is the same almost everywhere. A service call is a
chain of SQL statements separated by `await`s, rarely in a transaction; other
calls run between any two of them. Correctness then rests on the WHERE clause of
each UPDATE, on unique indexes, and on the order of the statements. The engine
adds asynchronous writes nobody waits for, notifications that may be lost, and
sockets that close without saying so.

### Inventory

| Component | State | Operations | What must hold | Module |
|---|---|---|---|---|
| Remote-control service (`lib/remotecontrol`) | `remotecontrolsessions`, `remotecontrolaudit` | request, offer, allow, decline, register agent, pause, resume, end | consent before control, single-use token cleared on use or end, legal transitions, complete audit, one active session per DM | `ControlSession`, `ControlLifecycle`, `ControlStates` |
| Control relay (`server/ws.ts`), helper agent (`apps/agent`) | client and control maps, heartbeat flags, injector pause flag | connect, close, heartbeat, pause/resume, status delivery, crash | no relay to an unwatched agent, a dropped agent ends the session, a stop reaches the agent, the three copies of the status agree | `ControlRelay` |
| Sessions and refresh tokens (`lib/auth/service.ts`) | `sessions`, `refreshtokens` | login, refresh (rotate, grace, reuse), logout, password reset | one live session per device, sign-out complete, every session reachable by sign-out | `AuthSessions` |
| Ways into an account (the same file) | `users`, `ssoidentities`, `magiclinktokens` | sign up, provision, sign in by SSO, link, unlink, ask for and follow a magic link | an account keeps a way in, a spent link has let its owner in | `SignIn` |
| Contacts (`lib/contacts/service.ts`) | `contacts`, `contactinvites`, notices in the DM | request, respond, withdraw, purge, invite, cancel, redeem | a response is final, both agreed, a spent invitation connects, notices true, one thread per pair | `ContactPair`, `Acquaintance` |
| Contact flood guard (`lib/contacts/flood.ts`, `lib/auth/ratelimit.ts`) | window counter in memory, freeze row | count, freeze, unfreeze | a freeze is earned after the last unfreeze | `FloodGuard` |
| Event log and resume (`ws.ts`, `lib/ws/client.ts`) | `wsevents`, subscriptions, the client's cursor | publish, store, route, subscribe, drop, resume, expire | nothing missed silently | `EventReplay` |
| Presence (`ws.ts`, `usePresence.ts`) | client table, `wssessions`, per-user counts, presence map, a page's copy | accept, set up, remove, announce, mirror; fetch and subscribe | counted iff connected, all copies agree | `Presence` |
| Communities (`lib/communities/membership.ts`) | members, links, redemptions, space members | join, redeem, change role, remove | caps exact, access follows membership | `CommunityAccess` |
| Entry to communities and spaces (`membership.ts`, `service.ts`, `policy.ts`) | join policies, `joinrequests`, members, a space and its members | join by policy, decide a request, create and re-level a space, remove | a decision is what was done, a plain space has every member | `CommunityEntry` |
| Space AI (`lib/communities/spaceai*.ts`) | configuration, sources, chunks | configure, upload, refresh, index in the background | what is ready is complete and not doubled, nothing waits for ever | `SpaceKnowledge` |
| Organisations (`lib/orgs/service.ts`) and company groups (`lib/consumer/groups.ts`) | memberships, invitations, seat limit | invite, accept, resend, revoke, remove, change role; put and delete member, move the limit | seat limit, an owner remains | `OrgSeats` |
| Messaging (`lib/engine`, `lib/ws/broker.ts`, `ChatsApp.tsx`) | messages with their delivery state, what pages show | send, announce, delete, fetch history | a page shows what was sent and not what was unsent | `ChatThread` |
| Presentations (`lib/presentations`) | presentation, egress, recordings | start, end, cancel, webhook, pull, replay, delete | the egress is known, a recording is registered once, "none" is true | `PresentationRoom` |
| Audience of a presentation (`lib/presentations/service.ts`) | `presentationattendees`, `maxattendees` | edit the cap, join, leave, raise, lower and resolve a hand | the cap is exceeded by little, one seat per person, the queue is who asks | `Attendance` |
| DM calls (`lib/dm/call.ts`, `DmCallManager.tsx`, `WSProvider.tsx`, `DmCall.tsx`) | prompt and call of every page, media room, signals under way | ring, accept, decline, end, join, leave | nobody waits alone | `DmCalls` |
| Training (`lib/training/service.ts`, `CourseEditor.tsx`) | items, positions | add, delete, reorder | the order the authors gave is kept | `CourseItems` |
| Skill studio (`lib/studio/skills.ts`) | skill row, versions | edit, roll back | the schema in force is in the history | `SkillVersions` |
| Consumer rooms (`lib/consumer/rooms.ts`) | rooms of an external service | upserts and deletes in transactions | idempotence | not modelled |
| Support chat (`lib/support`) | `supportsessions` | start, close | - | not modelled |
| Assistant, groupings, push, account, landing, analytics, translation, admin invites | rows of their own | single writes, model calls | little interleaves | not modelled (see below) |
| Desktop, mobile, other React components, `wxkanban-agent`, `_wxAI`, `scripts`, `courses`, `deploy`, `shared` | - | platform glue, tooling, content | - | not modelled |

The hazards of this code, with their lines and the properties that watch them,
are in `PROJECT.json`.

## Modules

### Remote control: `ControlStates`, `ControlLifecycle`, `ControlSession`

`ControlStates` is the transition table of `state.ts`. `ControlLifecycle` is the
abstract promise about the sessions of one DM: each walks the table, and a new
one is created only when no other is active.

`ControlSession` is `service.ts` at the granularity of SQL statements. A call is
a process `p` whose `call[p]` holds the statement it is at and the locals it has
read; each action is one statement, with its guard the WHERE clause. So
`allowControl` is `AllowControl` (read and checks) followed by `AllowUpdate`
(UPDATE by id only) and `AuditInsert`; `endControl`, which starts with its
guarded UPDATE, is `EndControl` followed by `AuditInsert`; `requestControl` and
`offerControl` select the active sessions, end them one at a time with an audit
each, and insert. Two audit inserts that follow each other are one step, and a
pure read (`emit`) is left out here. `StatementFails` lets any statement throw, also
inside the loop that swallows the error. A token is available to agents
(`issued`) only once the call that minted it has returned it. History variables
(`minted`, `minter`, `uses`) feed the properties and guard nothing but the
freshness of tokens.

### The relay: `ControlRelay`

One session as engine, agents and row see it. The row starts where
`ControlSession` leaves it after an allow. `conn[a]` follows
`handleAgentConnection` through its two awaits; `clients` and `meta` are the
engine's maps; `writes` are the database calls started with `void` and not
awaited, which therefore complete in any order; `emits` and `posts` are the
re-read of the row and the POST that follow a write which hit it. `AgentGone`
is a process or network that disappears, with or without a close event;
`Heartbeat` and `Pong` are the 30 s interval. `RegistrationFails`, `WriteFails` and
`EmitFails` are statements that throw in between: the engine swallows or logs them
and tries nothing again. Two agents may present the same
token, which is what the unguarded grant of `registerAgent` allows. A crash of
the engine empties its maps and drops its sockets and unfinished calls.

### Sessions and refresh tokens: `AuthSessions`

A row is a session together with the refresh token issued with it, a family the
chain of rows one sign-in starts. `refresh` is its read (`Refresh` or
`RefreshReused`), the two inserts, the marking of the old token and
`revokeOtherFamilySessions` in its two statements; `logout` is the lookup and
the three statements of `revokeFamily`; the reset is the two statements after
its transaction. A client may present any token it was ever given, at any time:
that covers retries, delays and copies. The five-second grace window is
nondeterministic (`GraceEnds`), so calls fall on either side of it.
`revokeSessionById` has the statements of `logout`.

### Ways into an account: `SignIn`

An account is the row of an address with what opens it: a password, identities at
a provider (`holder`), a magic link. `Create` is the transaction that inserts a
user with an organisation and fails as a whole when the address is taken;
`LookupByEmail`, `SsoSignIn` and `ConsumeMagicLink` are the reads that come before
it. `unlinkSsoIdentity` is four statements, `consumeMagicLink` three. `armed` are
the accounts that have had a way in, `crossing` those of which two unlinks
overlapped; `known` in a link says that there was an account when it was asked for.

### Contacts: `ContactPair`, `Acquaintance`

One pair of people. Rows are inserted in order, since "the newest row that has a
conversation" is what `getOrCreateDirectConversation` looks for. The partial
unique index is a guard of the INSERT and the code's handling of its violation
an alternative of the same action. `Redeem` and `Claim` stand for
`acceptContactInvite` and for one round of the loop of
`autoAcceptContactInvitesForUser`, whose claim is guarded the same way.
Branches for rows without a conversation are left out: every insert stores one
and nothing clears it. The flood guard only refuses requests, which is a request
that does not happen; expiry of an invitation likewise.

`Acquaintance` is what two people are promised: one asks, the other one agrees, what
was asked may be turned down or taken back until then, or a redeemed invitation
brings them together; and nothing undoes a connection. `ImplementsAcquaintance` says
that `ContactPair` keeps it: `behind` are the sender and the addressee who accepted of
the one row that is pending or accepted, `connected` that a row is accepted, `invited`
that an invitation is consumed. Reads, guards, notices, conversations and the order of
the calls' statements disappear in it.

### The event pipeline: `EventReplay`

An event is its position; ids are UUIDs of version 7, whose order is the order of
publication while storing and routing overlap (`PersistEvent`, `RouteEvent` in
any order between publishes). A failed insert is swallowed, so the event is
routed and never stored. The connection's `inbox` is its queue of frames:
`Opening` is what `onopen` sends, and `handleResume` is its select
(`ResumeSelect`) and its answer (`ResumeAnswer`), with any number of routed
events in between. A query that throws is only logged, and the client then gets no
answer (`ResumeFails`, `unanswered`); a subscription may be refused or throw, and the
connection goes on without that scope (`HandleSubscribe`). The client's cursor follows every event it handles. `waived`
collects the ids the code gives up on without a word: those never stored, those
expired or older than the cursor at the resume, those a refresh replaces. In the
pages nobody listens to that order to refresh; the model takes the client's
part in `lib/ws/client.ts` at its word.

### Presence: `Presence`

One user with several connections, as the engine counts them and as the page of a
colleague shows them. `setup` and `teardown` are the two chains of awaits,
which run independently of each other: a connection may be removed while it is
set up (`early`). `announcing[c][k]` is an announcement between its change of the
map, the lookup of the organisations and its event; `publish` mirrors the event
into the map once more, which is how a late "offline" can erase a user who is
back (`disturbed`). The page's hook fetches the map and handles the events; it leaves
the subscription to the organisation to others, so the model lets it come at any time
(`SubscribeToOrg`, `listening`). The fetch may fail. `stale` says that the page has
heard the last announcement neither way.

### Calls: `DmCalls`

Every open page of three users with two conversations. `signals[t]` are the
events on their way to a page; `OnRing`, `OnDeclined` and `OnEnded` may take any of
them, so signals overtake each other, and `Lose` drops one. Signals name the
conversation and not the call. `onRing` declines when its `active` says that the page is
in a call, but `useWSEvent` binds the first handler it is given and keeps it
(`WSProvider.tsx:55-62`), for which `active` is null: `OnRing` always sets the prompt,
which shows once the page is in no call. The media room is external; of it only joining,
which may fail, leaving, and the notice that a participant left are modelled. `crossed`
names the conversations in which both users called at once, `excused` those for which
the code has lost track.

### Threads: `ChatThread`

One conversation, its messages and the pages that show it. A send is its insert,
the gateway's answer, the read of the row and the event; a deletion its update
and its event. A page subscribes and fetches its history at the same time, and
the history replaces what events had put on the page. It is the oldest part of the
thread (`oldest`, the first `HistoryLimit` rows; 200 in the code) and may fail to come.
`publishEvent` gives up after two seconds and swallows the failure, so `Deliver` may
lose an event. `missed` marks pages that an event reached in the gap of the history,
before the subscription took or not at all, that got no history, or that got a message
published after its deletion; to open the thread again clears the mark.

### Presentations: `PresentationRoom`

The status, the egress columns, LiveKit's recordings (external: `EgressSettles`)
and the rows about them. `startPresentation` is four steps, the third the call to
LiveKit, whose answer may be lost. `finalizeRecordingFromEgress` and the webhook
share `registerRecording` (`FindRecording`, `InsertRecording`). `blind` says that
two starts overlapped or an answer was lost, `twice` that two calls registered one
file at once or that a file was pulled by the room's name.

### Audience: `Attendance`

A join is the check of the presentation, the count of seats, the search for a seat
the person has, and the insert; the host skips the count, and everybody does once
the presentation is over. The host edits the cap (`UpdatePresentation`); `updatePresentation` and
`startPresentation` look at the status and write by id, so the model lets these
writes come at any time. A hand is the search for the caller's row and the update.
Guests have no account and take a new row each time. A row that was left is kept
only while a hand refers to it. `doubled` are people two of whose joins passed the
search together, `tangled` those whose hands overlapped or who have two seats.

### Knowledge of a space: `SpaceKnowledge`

`task[p]` is a request and then the job it starts without waiting: `configureSpaceAi`
in its statements, an upload or a refresh, and `indexSpaceAi`, which marks, clears,
fills and marks each source of the list it read. `SourceFails` is an error the loop
catches, `JobDies` a restart or one it does not. `doubly`, `lost` and `mixed` mark
sources indexed by two jobs at a time, sources of a job that died, and overlapping
configurations.

### Services that share `Callers`

`Callers` declares the calls in flight and the people they are about.

- `OrgSeats`: admins' calls without a transaction and the consumer API's under a
  row lock, which excludes only other consumer calls. The two count seats
  differently, and the acceptance compares the limit it read before its count.
  Plain members and admins are one role. `overbooked` and `ownerRace` mark the
  races the code allows.
- `CommunityAccess`: joining and redeeming with the statements of
  `claimInviteUse` (redemption row, guarded count, taking the row back), the
  synchronisation of spaces, roles, removal, and the consumer seam. The spaces are
  read and then entered or left one by one; a space is open to every member or
  `adminonly`, and `updateSpace` may switch it meanwhile, which moves nobody.
  `crossed` are users admitted and put out at the same time, `waved` those whom the
  seam puts into an adminonly space, or who are inside, or on the way, when it
  becomes one.
- `CommunityEntry`: the join policies of a community and of one space,
  `joinCommunity` without an invitation, `decideJoinRequest`, `createSpace` and
  `updateSpace`, removal; any call may fail between two statements. `torn` are
  requests decided twice at a time or by a call that failed, `missed` the people
  whose admission failed midway or met their own removal.
- `CourseItems`: additions behind the greatest position that was read, reorders
  written one position at a time from a page that may be stale, each item once as
  in `orderItems`. `before` records the order the authors gave, `mixed` overlapping changes of it.
- `SkillVersions`: edits and rollbacks that read the row and later write every
  field of it. A version number stands for one of the three parts.
- `FloodGuard`: the counter of the limiter, the freeze row with its unique index,
  and the unfreeze, which clears the row and then the window.

The modules `MC...` add what TLC needs. `MCRealtime`, `MCServices` and `MCAdmission` each put
several components into one run: these share no variable, so a behaviour picks
one at its start and the state space is the sum of theirs, not the product.

## Runs

| Run | Bounds | Shows |
|---|---|---|
| `ControlSession` | 2 sessions, 2 tokens, 2 overlapping calls, 2 users, 1 failing statement | `TypeOK`, `TokenOnlyWhilePending`, `SpentTokenNeverStored`, `ConsentBeforeControl`, `AuditAccountsForStatus`, `OnlyStaleWritesAreIllegal` |
| `ControlSerial` | 3 sessions, 3 tokens, calls one at a time | `ImplementsLifecycle`: `ControlSession` refines `ControlLifecycle` |
| `EndedIsTerminal` | 2 sessions, 2 overlapping calls | **violated**: an ended session comes back to life |
| `ControlRelay` | 2 agents, 2 pauses/resumes, 1 failing statement, lost post or crash | `TypeOK`, `RelayIsAttended`, `PauseAgreesWhenQuiet` |
| `ControlRelayLive` | 2 agents, no pause, 1 failing statement, lost post or crash, fairness | `NoStandingAccess`, `StopCutsConnectedAgents` |
| `EndedSessionHasNoRelay` | 1 agent, no fault | **violated**: a stop during registration is missed by the agent |
| `AuthSessions` | 2 overlapping calls; sessions: 4 rows, 2 families; sign-in: 1 address, 2 identities, 2 links; audience: 2 people, 4 seats, caps of 1 and 2, once with hands and once with edits of the cap and late starts | `AllTypeOK`, `AtMostOneLiveSession`, `NothingEscapesSignOut`, `NobodyIsLockedOut`, `OverAdmitIsSmall`, `AudienceIsKept` |
| `ExactlyOneLiveSession` | 4 rows, 1 family, 2 overlapping calls | **violated**: two refreshes revoke each other's session |
| `ContactPair` | 3 rows, 2 conversations, 2 invitations, 2 overlapping calls | `TypeOK`, `RespondedIsFinal`, `ToldIsConnected`, `ImplementsAcquaintance`: `ContactPair` refines `Acquaintance` |
| `OneThreadPerPair` | 2 rows, 1 call at a time | **violated**: a re-request after a purge or a withdrawal opens a second conversation |
| `Realtime` | events: 3 events, 2 drops; presence: 2 connections; calls: 3 pages, 2 conversations, 2 calls; threads: 2 messages, a history of 1 row, 1 page, 2 overlapping calls; presentations: 2 egresses, 2 recording rows, 2 overlapping calls; knowledge: 1 source, 1 batch, 2 overlapping requests or jobs | `TypeOK`, `NoSilentGap`, `CountsTheConnected`, `PresenceAgreesWhenQuiet`, `NobodyWaitsAlone`, `PagesShowTheThread`, `RecordingsAreAccounted`, `KnowledgeSettles` |
| `Services` | 2 overlapping calls; organisations: 3 people, 1 invitation, 2 seats; communities: 2 people and the founder, 1 space, 1 link of 1 or 2 uses, once with links to an open space and once with the switch and the seam; entry: 2 people, 1 request, 1 space; training: 3 items, positions to 3; studio: 2 schemas, 4 versions; flood guard: limit 2 | `TypeOK`, `OwnerIsKept`, `SeatsWithinLimit`, `UsesAreCounted`, `AccessFollowsMembership`, `OrderIsKept`, `SchemaIsRecorded`, `FreezeIsEarned`, `DecisionIsWhatWasDone`, `PlainSpaceHasEveryMember` |

The bounds are named constants (`MaxFailures`, `MaxToggles`, `MaxFaults`,
`MaxRows`, `MaxEvents`, `MaxDrops`, `MaxStarts`, `MaxRecordings`, `MaxPosition`,
`MaxVersion`, `MaxSeats`, `MaxUses`, `Batches`, and `HistoryLimit`, the limit of a query)
or sizes of the sets. Two calls are enough for every race of a read with a write of another call, and the rows allow each call one new row beyond the
one they dispute. Runs with three calls (`ContactPair`, fewer rows) and with
three conversations, of `Presence` with three connections, of `PresentationRoom`
with four recording rows were made while the bounds were chosen and found nothing
else. Three events and two drops let one event be seen before a drop, one be
missed and one arrive during the resume, twice; a second call is what overtaking
signals of the first disturb; a link of one use is disputed by two people; with a
cap of one, two joins dispute the last seat, and one of two lets the host lower it
below the audience. A source with one batch can be
cleared, half done, done twice and left; with two sources or batches the job only
does the same again (`SpaceKnowledge` alone was also run with two sources, and with
two batches).

A property of these runs is often a conjunction of named parts that speak of the
same state, such as `NothingEscapesSignOut`; each part is a definition of its own
with its comment.
Deadlock is not checked: ids run out in every bounded instance, and users may
stop.

Some properties hold only under a condition, and the condition is what the code
does not protect:

- `AuditAccountsForStatus` speaks of runs in which no statement failed.
- `RelayIsAttended` and `NoStandingAccess` do not speak of a session in `abandoned`: a
  registration that throws after its grant, an end of a dropped agent that fails to
  be written (both are only logged) and a crash of the engine leave a granted row
  that nothing ends. They say that nothing else does, in whatever order agents come,
  go and are stopped; and `RelayTargetIsWatched` has no such condition.
- `PauseAgreesWhenQuiet` excludes pauses that overtake each other or fail to be
  written, lost posts and crashes; `StopCutsConnectedAgents` excludes lost posts,
  and an emission that throws counts as one.
- `NothingEscapesSignOut` excludes families on which a sign-in or refresh overlapped
  the revocation: the refresh may insert after `revokeFamily` has read.
- `NobodyIsLockedOut` excludes accounts of which two unlinks overlapped (each counts
  the identity the other deletes), and links to an address without an account that
  got one in another way: the link is spent and the account it would make is refused.
- `AudienceIsKept` excludes people in `doubled` and `tangled`.
- `OverAdmitIsSmall` does not count those who joined to watch a replay, whom the code
  does not count either, and measures by `ceiling`: the host may lower `maxattendees`
  below the audience (people join while the presentation is scheduled), and a call
  may still hold the cap it read. A cap that was lowered counts from an edit at which
  nobody is seated beyond it or on the way in.
- `DecisionIsWhatWasDone` excludes requests in `torn`, `PlainSpaceHasEveryMember`
  people in `missed` and spaces whose policy was set afterwards: `updateSpace` moves
  nobody.
- `KnowledgeSettles` excludes sources in `doubly`, whose chunks really double,
  sources in `lost` until the next job, and configurations in `mixed`.
- `ToldIsConnected` excludes a decline or
  withdrawal that overlapped a connecting call: the invitation is then spent, or
  the notice posted, without a connection.
- `NoSilentGap` excuses the events in `waived`. Some of them contradict what one
  expects of a resume: a replay that finds anything newer is called complete
  even if older events between the cursor and the oldest survivor have expired,
  and an event older than the cursor is never replayed. It speaks of the scopes the
  connection was granted, and not of a connection whose resume got no answer: that gap
  is silent until the next resume. What the property rules out is a hole between the
  replay's read of the log and the live events, and that a resume leaves open what an
  unanswered one before it left.
- `CountsTheConnected` lets a connection that closed during its setup stay
  counted (the code does leave it), `PresenceAgreesWhenQuiet` excludes such
  connections, overlapping announcements and failed statements. Of the page's copy it
  speaks once the page has fetched, unless the last announcement fell between the
  fetch's read and its answer, or after the fetch and before the subscription, or the
  fetch failed and nothing was announced since.
- `NobodyWaitsAlone` excludes conversations in which a signal was lost or
  overtaken, calls that begin before an earlier one is over or its ring there, a prompt
  replaced by another, and an answer on one of several pages of a user. Where both users
  called at once it still says that nobody is left alone in the call, but nothing of the
  prompts: each page keeps the other's ring behind its own call, and rings for nobody
  after it. To accept such a prompt is excluded too. It speaks of peers with a page open: nothing
  tells the caller of one without, who rings until hanging up.
- `PagesShowTheThread` excludes pages in `missed`, and speaks of the messages
  `listMessages` returns: of a longer thread an opened page has the newer ones only as
  far as their events came.
- `RecordingsAreAccounted` excludes `blind` presentations and recordings in `twice`:
  no unique index protects the row.
- `OwnerIsKept` and `SeatsWithinLimit` exclude the races no lock closes: two
  owners leaving on the count of each other, a plain member's removal that hits
  a new owner, a seat taken on a stale count, an owner demoted when no seat is
  left. Every other way to lose the last owner or to overfill is ruled out.
- `AccessFollowsMembership` excludes users in `crossed` and allows those in `waved`
  to be in the adminonly space in question: `ensureCommunityAndSpaceMember` overrides
  the policy of its space, and `updateSpace` takes nobody out. A demotion ends this for
  the spaces adminonly by then, a removal for all.
- `OrderIsKept` excludes overlapping
  reorders, `FreezeIsEarned` requests inside the guard during an unfreeze.

A call that breaks off between two of its statements is a step of `ControlSession`,
`ControlRelay`, `CommunityEntry`, `ChatThread`, `EventReplay`, `Presence` and, for the
background jobs, `SpaceKnowledge`. In the other modules calls may wait and overlap but
complete, so their properties do not speak of a refresh that throws after its inserts
(`auth/service.ts:619-628`), a magic link whose sign-in throws after it was spent
(`auth/service.ts:840-874`), a claim that throws between its redemption row and the count
(`membership.ts:158-182`), a configuration of a space's AI that throws midway
(`spaceai.ts:95-152`), or the update that throws once the egress has begun
(`presentations/service.ts:225`). `PresentationRoom` takes a file to be listed once its
egress is complete.

Each of these excuses is set only by the step that makes the race happen, and the
properties still fail under small slips of the code (`PROJECT.json`, `mutants`).

### What the violated properties say

- `EndedIsTerminal`. `allowControl` and `registerAgent` read the status, then
  update by id. A stop in between is overwritten: the session goes on, although
  `state.ts` says that the service mirrors its table in atomic guards.
  `OnlyStaleWritesAreIllegal` shows there is no other way out of the table.
- `EndedSessionHasNoRelay`. The agent enters the engine's maps after two awaits
  of `registerAgent`. The notice of a stop pressed meanwhile reaches nobody, and
  the agent is then entered as granted, relays, and is never told.
- `ExactlyOneLiveSession`. Two tabs refresh at once; each revokes every session
  of the family but its own. `AtMostOneLiveSession` is what remains true.
- `OneThreadPerPair`. The thread is remembered by rows that are deleted.

Other disagreements between the code and its comments were met while modelling and
are kept here without a run of their own:

- A person who rejoins a full presentation is refused, since the count comes before
  the search for a seat; the comment at `presentations/service.ts:888` promises the
  existing row.
- `membership.ts:278` says one active request per user; two overlapping joins that
  both look first insert two.
- `communities/service.ts:247` says a space may only be stricter than its community;
  the community's policy may become stricter afterwards, and `updateCommunity` does
  not look at its spaces.
- `auth/service.ts:302-306` says a user can never lock themselves out; two
  overlapping unlinks of two identities do.
- `auth/service.ts:784-786` says the address can be turned into an account on
  consume; when one appears between the request and the click, the link is spent
  and the click fails.
- `spaceai.ts:133` says exactly one history row; two overlapping configurations
  insert two.
- A refresh sets every source to pending, and a job that was running sets the one
  it is at to ready again: it is not crawled anew.
- `DmCallManager.tsx:44` says that a ring is ignored or declined by a page in a call.
  `onRing` is bound once, in no call, and never declines; after two users called each
  other at once, the one who hangs up is left with a prompt that rings for nobody.
- `ws.ts:382-383` says that a client gone for too long is told to refresh; when the query
  of its resume throws, it is told nothing.
- A thread of more than 200 messages opens on its oldest 200
  (`engine/service.ts:199-200`).
- `usePresence.ts:8-12` seeds the map before the subscription is made: an announcement
  between the two is not shown until the next one.

### Fairness

Only `ControlRelay` states any. Weak fairness is assumed of what the event loop
and the database do once started (the rest of a handshake, started writes, the
emission and the delivery of posts), of close events, and of the heartbeat, which
is an interval of the engine. None is assumed of people, of agents, of an agent's
pong, or of the loss of a post. The interval does not survive a crash, and the
property stops at one.

## Proofs

`ControlSession_proofs` proves for all sets of sessions, tokens, calls and users
and any number of failing statements, from `ControlAssumption` (null values are
not among the ids):

- `TypeCorrect`: `Spec => []TypeOK`.
- `OnlyStaleWrites`: the action property, from type correctness: each action
  is shown to make a legal move or to be one of the two stale writes.
- `TokenOnlyWhilePendingHolds` and `SpentTokenNeverStoredHolds`, from the invariant
  `TokenInv`. Neither is inductive alone. What makes them so is where tokens can
  be: a stored or carried token has been minted, and two calls that bring
  different tokens cannot have the same; a spent token was minted and is
  neither stored nor about to be.
- `ConsentBeforeControlHolds`, from `ConsentInv`, which adds what an in-flight call
  may rely on: an allow in progress is by the row's host, a registration in
  progress is of a session whose host has minted a token, and hosts never change.

- `AuditAccountsForStatusHolds`, from `AuditInv`. The property speaks of sessions no
  call is at work on; the invariant counts what a call still owes the trail (`Owed`) as
  part of it (`TrailTells`), and a registration in flight knows that its session was
  allowed (`WasAllowed`).
- `SerialCallsImplementLifecycle`: `Spec` with one call at a time and no failing
  statement implies `ControlLifecycle!Spec` under the mapping of a session to its
  status. The writes do not look at the status again, so `SerialInv` says that what a
  call has read is still true when it writes, and that the loop that ends stale sessions
  has every active one on its list (`Prepared`). Its corollary
  `OneCallerImplementsLifecycle` replaces the two temporal hypotheses by constants: one
  caller, no failures. For calls that overlap the refinement is false, as the run
  `EndedIsTerminal` shows.

Each invariant has an initial lemma and a step lemma with one step per action;
the temporal step combines them.

The other proofs are about components that share no state with it, each for every
value of the constants of its module:

- `NoSilentGapHolds` (`Realtime_proofs`), from `ReplayInv`. The property speaks of
  a client that has handled everything; the invariant says, for every stage of a
  connection, where a routed event can be: seen, waived, on the wire, among the
  rows of an answer under way, or still in the log for a resume to select, the next
  one's when this connection's got no answer (`LogOK`, `AnswerOK`, `QuietOK`). `LinkOK` ties subscriptions, queue and cursor
  together. `SortedRows` shows that sorting a replay loses no row.
- `CountsTheConnectedHolds` (`Realtime_proofs`), from `CountInv`, which adds the order
  of setup and teardown.
- `UsesAreCountedHolds` (`Community_proofs`), from `LinkInv`: each claim under way
  is backed by a redemption row of its own, and the count is the number of rows
  nobody still claims. Two concurrent claims of one person are where it would fail.
- `FreezeIsEarnedHolds` (`Services_proofs`), from `FloodInv`: the window counts no
  more than the attempts since the last unfreeze, and a tripped request is
  evidence of too many.
- `SchemaIsRecordedHolds` (`Services_proofs`), from `SkillInv`: what an edit read
  stays in the history.
- `AtMostOneLiveSessionHolds` (`AuthSessions_proofs`), from `SessionInv`. The property
  speaks of a family nobody is working on; the invariant, of two live sessions of a
  family at any time: one of them is the new row of a refresh that has linked it and
  will yet read the family, or has read the other and will revoke it (`OneWillGo`).
  It rests on a sign-in having its family to itself (`LoginIsFirst`) and on a new row
  being in the hands of one call (`NewIsOwn`). Steps that link no row and bring no
  session to life share one lemma (`QuietStep`).
- `OverAdmitIsSmallHolds` (`Admission_proofs`), from `SeatInv`: the seats taken and
  the joins past the check together exceed the ceiling by less than the number of
  calls. No cap in force or held by a call is above the ceiling (`CapsKeepTo`,
  `StepOfCaps`); a step leaves those sets and the ceiling, lets a join in under it, or
  resets it when nobody is beyond or on the way (`StepOfSets`).

- `NothingEscapesSignOutHolds` (`AuthSessions_proofs`), from `RevokeInv`, on top of
  `SessionInv`. A family on which no issuing call overlapped a revoking one belongs to
  one side at a time (`OneSideAtATime`), so what the revoking call has read is all there
  is (`ReadThemAll`): its tokens go together, and the sessions with them or next
  (`RevokedTogether`).
- `OwnerIsKeptHolds` and `SeatsWithinLimitHolds` (`Services_proofs`), from `OrgInv`: a
  write that counted the owners found a second one who is still there, and a call past
  the count of the seats has one left, unless the history says that the count was stale.
- `RelayIsAttendedHolds` (`ControlRelay_proofs`), from `RelayInv`: the engine's client
  table holds exactly the open agents (`WatchedIsOpen`), so that whoever is dropped from
  it leaves an end-of-session write behind; `abandoned` changes only with the faults.
- `ConnectionNeedsBothHolds` and `RespondedIsFinalHolds` (`Contacts_proofs`), from
  `ContactInv`. Each step makes every row one of the moves of `RowMoves`; a call about
  to accept a row that still waits is not by its sender (`MayWrite`), which the
  overlapping calls keep true because a place in the table is never used twice.
- `ContactsImplementAcquaintance` (`Contacts_proofs`), from `PactInv`, on top of the two
  invariants before: at most one row is pending or accepted (`OneActive`, the unique
  index), an invitation is stored once and a consumed one stays consumed, and a call that
  redeems one has consumed it. A step that writes no row and consumes nothing leaves what
  the pair sees (`PairRests`); each of the others is an `Ask`, an `Agree`, a `Drop`, a
  `Redeem` or a `Meet`.

- `RelayTypeCorrect` and `PauseAgreesWhenQuietHolds` (`ControlRelay_proofs`), from
  `TypeOK` and `PauseInv`. Quiet is only the end of a pause; in between, one change at a
  time is in the engine's meta, in a write, in a post or at the injectors (`InStep`:
  `Underway <= 1`), and before the grant nothing is (`Untouched`).
- `ContactTypeCorrect` and `ToldIsConnectedHolds` (`Contacts_proofs`), from
  `ContactTypeInv` and `ToldInv`: while no retracting call has overlapped a connecting
  one, a claimed invitation has connected the pair or has a redeeming call that will,
  and the row a call is about to accept still waits or is accepted (`Promised`).
- `AccessFollowsMembershipHolds` (`Community_proofs`), from `AccessInv`: an admission
  past its insert has its member, and the spaces on its list that became adminonly
  have waved it (`AdmittedStands`), one past its claim a use nobody
  takes back (`RedeemerIsSettled`), and what a person may enter is what role and
  redemptions allow, or was waved, or a removal or demotion is about to take it away
  (`MayChat`).
- `DecisionIsWhatWasDoneHolds` (`Community_proofs`), from `DecisionInv`: an approval that
  has let the person in is the only call deciding that request, and it will be written.
- `PlainSpaceHasEveryMemberHolds` (`Community_proofs`), from `PlainInv`: a member not in
  the conversation is being carried there by a call (`MembersAreCarried`), and a removal
  on its way to the conversation meets nobody coming back.
- `AudienceIsKeptHolds` (`Admission_proofs`), from `AudienceInv`: who is about to take a
  seat has none (`PersonsAlone`), and a hand in flight is the only one of its person and
  tells whether they ask (`HandsTell`).
- `NobodyIsLockedOutHolds` (`Admission_proofs`), from `SignInInv`: what an unlink has read
  of the other ways in stays true while it is alone (`AnotherRemains`), and a spent link
  has signed in or is about to (`BoundEnters`, `MakerEnters`).
- `PresenceAgreesWhenQuietHolds` (`Realtime_proofs`), from `AgreeInv`: at most one
  announcement is under way and it says what the map says, and when none is, a page that
  is not `stale` shows it or holds it in its answer (`MapTells`); rows and client table
  follow setup and teardown (`RowsFollow`, `Opened`).
- `RecordingsAreAccountedHolds` (`Realtime_proofs`), from `EgressInv` (the one start there
  can be, and where the answer of LiveKit is held until the row has it) and `RowInv` (a
  call between its look-up and its insert is the only one for its file).
- `KnowledgeSettlesHolds` (`Realtime_proofs`), from `ChunkInv` (the batch of the one worker
  says which chunks are there), `PendingInv` (a source that waits is in somebody's hands:
  on a job's list, or before a job or configuration that will read it) and `MirrorInv`.
- `PagesShowTheThreadHolds` (`Realtime_proofs`), from `ThreadInv`: from the read of its
  history on, a page that missed nothing has each message of `oldest`, or has it in its
  inbox, or a call is about to publish it, and nothing behind a tombstone in the inbox
  brings the text back (`UnsentGets`, `SentGets`). `oldest` only grows, and only by a
  message whose events are all still to come.
- `OrderIsKeptHolds` (`Services_proofs`), from `CourseInv`: a reorder under way has the
  course to itself (`ReorderIsAlone`), names each item once, and what it has written is in
  order and before what it has not (`HalfWritten`); an addition goes behind what it saw
  (`GoesBehind`). `InOrderLists` shows that sorting a finite set by a strict order lists
  each member once.

- `NobodyWaitsAloneHolds` (`Contacts_proofs`), from `CallsInv`. A conversation that is not
  excused is seen as five sets of pages: in the call, with the prompt, and with a ring, a
  decline or an end on its way. What holds of them even after both users called each other
  at once (`Sides`): a user has one page in the call (`OneCall`), who declined has no prompt
  left and who ended no call (`DeclinedAll`, `EndedAll`), and a page in a call will be told
  that it is over, or its ring is or will be before the peer, or the peer stays in the call
  (`NotAlone`). Unless the calls crossed, nobody is called who is in the call (`Apart`), and
  a ring or a prompt has its caller or an end behind it (`HasCaller`, both in `OneWay`); a
  ring goes ahead of what follows it (`RingsLead`). What each step does to the sets is a
  lemma about sets alone (`SidesStart`, `OneWayStart` to `SidesEnded`); what sending and
  taking do to the sequences of signals is another (`SignalKnown`, `TakeKnown`), and each
  action combines the two.

Four runs refute what a comment or a test says of the code. A companion theorem of each
says how far the sentence is right, and so which are the only ways it goes wrong. The
hypothesis is a condition on the behaviour, which TLC finds many states to satisfy; what
it does not mention may happen in any order.

- `SerialCallsKeepEnded` (`ControlSession_proofs`): an ended session stays ended while
  calls do not overlap and no statement fails; from the serial refinement.
- `EnteredAgentsAreToldToGo` (`ControlRelay_proofs`): an ended session has no relay left,
  if no agent is still entering when it is ended (`EntersBeforeEnd`) and no post is lost.
  The invariant `ToldToGo`: either the news of the end is on its way, or no watched
  agent is still connected.
- `RefreshesApartKeepOneSession` (`AuthSessions_proofs`): a device has exactly one live
  session if no two of its refreshes overlap (`RefreshesApart`), whatever else does. The
  invariant `KeepInv`, on top of `RevokeInv`: what a call is about to revoke is of its
  family and not its own session (`HasRead`), and a family no sign-out disturbs has a live
  session, as has every refresh that holds one (`KeepsItsSession`).
- `RememberedThreadIsOne` (`Contacts_proofs`): a pair has one thread if no row is deleted
  (`NothingDeleted`) and one call at a time is between its search and its insert
  (`FindersApart`). The invariant `ThreadInv`: whoever is about to make a thread has seen
  that there is none, and a thread that was made is in a row or about to be.

Three runs check several components at once, one per behaviour. `RealtimeTypeCorrect`
(`Realtime_proofs`), `ServicesTypeCorrect` (`Services_proofs`) and
`AdmissionTypeCorrect` (`Admission_proofs`) state the type invariant of such a run.
Each rests on a lemma that a behaviour of the run is one of every component
(`RealtimePartsStandAlone`, `ServicesStandAlone`, `AdmissionPartsStandAlone`), so that
whatever is proved of a component alone holds in the run, and on the components' own:
`ReplayTypeCorrect` (no id on a wire, in the log or at the client that was not
published, from `ReplayBounded`), `CallsTypeCorrect`, `OrgTypeCorrect` (a limit about
to be written is a legal one, `OrgBounded`), `CourseTypeCorrect` (no two items of a
course have the same rank, so that a page lists each, `CourseRanked`),
`EntryTypeCorrect`, `ComTypeCorrect`, `PresTypeCorrect`, `KnowTypeCorrect`,
`SignInTypeCorrect`, `SeatTypeCorrect`, `SessionsTypeCorrect`.
A greatest number exists (`Greatest`, `HasMax`) by
the least-number principle, which the library states for a well-founded relation
(`WFMin`); no proof needs induction over an operator.

The assumptions on constants say that null values are not among the ids, that sets
are finite where something is counted (people and calls at seats, uses and history
rows, items), that bounds are numbers, and that a conversation of two has no third
user. The hypotheses of the theorems are these and nothing else, but for the serial
refinement and the four companion theorems, which say so.

Every invariant and every action property of the passing runs, and both refinements,
are stated by a theorem. Only model-checked:

- Liveness (`NoStandingAccess`, `StopCutsConnectedAgents`), which is out of the prover's
  reach.
- The counterexamples of the four runs that expect a violation; how far their
  properties do hold is proved, as said above.

## Plan

What is left are the operations still missing from components that are modelled in
part: inbound messages and read markers of the engine, consumer rooms, links without a
cap and organisation-only spaces, invitations to presentations.

## Not modelled

The assistant, groupings, push, account, landing, analytics and admin services
write single rows or run in one transaction; translation, captions, crawling,
embedding and answering are calls to outside services. The support service inserts
and closes a row; `assignSupportSession`, which could reopen it, has no caller.
React components other than those named, the mobile and desktop shells, content
and the repository's own tooling hold no shared state that the server's
correctness rests on. They are most of the repository: `_wxAI`, `wxkanban-agent`,
`scripts`, the pages and the components together are about two thirds of its lines,
and of the services much is queries, validation and presentation of rows. The map
therefore covers a small share of all lines, and most of those that change shared
state.
