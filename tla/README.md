# A formal model of CommandCanvas

CommandCanvas is a shared visual workspace: people in a room edit one canvas by
pointer, hand, voice, typed commands and WebMCP tools, and every edit is a
semantic command that a service plans and a database commits. This directory
holds TLA+ modules that model the parts of it where order, failure and
concurrency decide whether it is correct, the TLC configurations that check
them on small instances, and proofs, checked by TLAPS, of the most important
results for every instance. Paths below are relative to `src/`.

## The system and its parts

| Part | Where | State it keeps | Interacts with |
|---|---|---|---|
| Command engine | `lib/canvas/command-engine.ts` | `CanvasState`: objects, revision, receipts, undone and redo receipt ids | called by the canvas store, by the service's planner |
| Canvas store and reviewed discard | `lib/canvas/canvas-store.ts`, `components/command-canvas/*` | the canvas shown, selection, the discard under review | dispatches to the engine (local preview) or hydrates what a session loads |
| Room session | `lib/demo/room-session.ts` | snapshot (status, state), `pendingRevision`, `revisionWork`, `commandWork`, `disposed` | calls the room service over HTTP, loads from the database, listens to Realtime |
| Room service | `lib/supabase/room-service.ts` | none between requests | loads, plans with the engine, commits by one database call, reloads |
| Canvas loading | `lib/supabase/browser-room.ts`, `room-service.ts`, `persistence.ts` | per load: attempt, first room row, the two tables | reads the database in four requests |
| Room database | `supabase/migrations` | rooms, members, canvas_objects, receipts | serialises commits under a row lock, broadcasts revisions |
| Room channel | `lib/realtime/room-channel.ts`, `protocol.ts` | channel, epoch, retry timer and attempts, recovery flags | Supabase Realtime, browser online/offline events |
| Meeting packets | `lib/packets`, `lib/resend/webhook.ts`, migrations | packets and their approval, send requests, outbound shares, admissions, delivery events | the host, e-mail provider and its webhooks |
| Invitations and meetings | `lib/supabase/meeting-*.ts`, `lib/resend` | invitations, delivery status | e-mail provider, passwordless sign-in |
| Demo admission and lifecycle | migrations, `lib/demo/bootstrap.ts` | demo rooms, quotas, expiry | room service, session |
| Vision transform admission | `lib/vision`, migrations | leases, attempts, usage of demo rooms | provider calls |
| Session quotas | migrations, `lib/meeting/turn-*.ts` | ledgers of voice, relay and TURN sessions | the routes that start such sessions |
| Realtime voice | `lib/realtime-voice`, `components/command-canvas/realtime-voice-control.tsx` | session generation, response and tool-call queues, buffered turns, thought capture | speech service, room commands |
| Meeting media | `lib/meeting` | peer connections, signalling channels, queued signals; leases of the local devices | browser WebRTC, Realtime broadcast, hand input |
| Hand tracking | `lib/gesture` | tracker, calibration, gesture machine, relay session | camera, worker, canvas commands |
| WebMCP registry | `lib/webmcp` | registered tools per phase | canvas commands |
| Credentials, profiles, vision lab, landing | `lib/openai-credentials`, `lib/user-profiles`, `lib/vision-lab`, `app` | rows behind CRUD handlers | — |

What makes these parts hard:

* *Command engine* - undo and redo are themselves receipts, a redo can be
  undone, and a new command cuts the redo stack; frames nest, and moving,
  discarding and ungrouping act on the nest. Correct: undo and redo walk one
  linear history; live objects always sit in live frames; pinned objects stay.
* *Canvas store and reviewed discard* - a confirmation is bound to a version
  read earlier. Correct: what is discarded is what was reviewed.
* *Canvas loading* - four requests, each seeing whatever is committed when it
  runs. Correct: what a load hands out is one revision; a sound room is never
  called corrupt.
* *Room session and service* - answers, aborts, broadcasts, reloads and
  disposal interleave; the database call can succeed and its answer be lost.
  Correct: commits meet the revision they were made for; acknowledgements are
  durable; refusals are final; the view never goes back; every wait ends.
* *Room channel* - reconnection with bounded retries while the device goes
  offline and online and stale callbacks arrive. Correct: exactly one live
  channel; a needed recovery is always in progress or reported.
* *Room database* - the stored history has to be one the loader can rebuild.
  Correct: every committed room loads; the database accepts what is planned.
* *Packets and invitations* - approvals bound to digests, provider calls whose
  outcome is unknown, webhooks out of order. Correct: at most one mail per
  approved snapshot, only what was approved and in time; what is recorded and
  what the host is told of a mail is so; the newest delivery report is the one
  that shows.
* *Vision admission and quotas* - every call reads the clock before it waits for
  the locks it counts under, leases expire while the provider works, rooms are
  deleted. Correct: one call of a room at a time; no limit is exceeded; a repeat
  is answered alike and spends once.
* *Meeting media* - stop, disposal and roster changes come in at every await of
  the start and of the signal handler; signals carry no session number and are
  lost on a topic that is not joined yet. Correct: no device stays on; what is
  sent is what was chosen; two that are left alone find each other.
* *Realtime voice* - responses, transcripts, tool calls and appends finish in
  any order, over a stop and a new start as well. Correct: what was said is
  written once, in order, and on the card it was said for; dictation goes on.

`PROJECT.json` lists each part with its status and every hazard at its line.

## Modules

| Module | Models | Checked by | Proofs |
|---|---|---|---|
| `CanvasSchema` | what a canvas command may name (constants) | | |
| `Selection` | `Array.prototype.filter` | with the modules that filter | `SelectionProofs` |
| `CanvasCommands` | when the nine commands are accepted and what they leave, on any canvas | with the next two | `CanvasCommandsProofs` |
| `LinearHistory` | abstract: a past, a present, a future | as a property of the next two | |
| `CommandEngine` | the engine's state: commands, undo, redo | `canvas` | `CommandEngineProofs` |
| `RoomDatabase` | the stored canvas and its receipts | `canvas` | `CanvasProofs` |
| `ReviewedDiscard` | the two-step discard over the engine | `discard_review` (violation) | |
| `AtomicLoad` | abstract: a load at one instant | as the property of `CanvasLoad` | |
| `CanvasLoad` | the four-request load | `services` | `ServicesProofs` |
| `SharedRoom` | sessions, service, commit, broadcast | `room_safety`, `liveness`, `room_reconnect` (violation) | `SharedRoomProofs` |
| `RoomRealtime` | the channel controller of one session | `room_safety`, `liveness` | `ServicesProofs` |
| `PacketDelivery` | packets, their sends, the mail provider and its events | `packet_sends`, `liveness`, `packet_expiry` (violation) | `PacketDeliveryProofs` |
| `MeetingMedia` | the media controllers of a meeting | `meeting_media`, `meeting_calls` (violation) | `MediaProofs` |
| `LocalMediaBroker` | the lending of camera and microphone | `services` | `ServicesProofs` |
| `VisionAdmission` | admission, call and record of sketch interpretations | `services` | `ServicesProofs` |
| `SessionQuota` | the ledgers of voice, relay and TURN sessions | `services` | `ServicesProofs` |
| `VoiceSession` | the voice session, its tool calls and dictation | `meeting_media`, `voice_followup` and `voice_card` (violations) | `MediaProofs` |

The `MC*` modules add scenarios and symmetry sets for TLC. `MCCanvas`,
`MCServices`, `MCMedia`, `MCRoomSafety` and `MCLiveness` also put parts that share nothing side
by side: a variable `subject` says which of them a behaviour is about, and the
others stay in their initial state. So their states are summed and not
multiplied, and each part is explored as if it were alone. Under `MCLiveness`
a part that stays has no fair action enabled in its initial state, so fairness
asks nothing of it. `MCCanvas` takes the engine of its preview from
`CommandEngineProofs` (`Local`), so that what is proved of an engine holds of the
preview by name.

Operators whose comment begins "Faulty variant" are plausible bugs; no behaviour
of the model uses them. They are there to show that each property can fail:
substituted for the operator they follow or precede, they make it fail.

### CommandEngine

One action per command of `applyCanvasCommand`, guarded by what the code
checks. `Commit` is `commitMutation`: the revision, the objects, the receipt
with the before and after of exactly the affected objects, and the cleared
redo stack change in one step. `UndoLatest` and `RedoLatest` share `Reapply`;
`Effects` is `historyEffectReceiptIds`. Geometry has one dimension, a type is
a note or a frame and a note's text is the lines appended to it, which is all
that the guards and the properties tell apart. A refused command changes
nothing and is no step.

`ImplementsHistory` is the refinement of `LinearHistory`: the past is rebuilt
by rolling the undoable receipts back, newest first, and the future by rolling
the redo stack forward (`Reversed`; a receipt that a live redo stands for is
walked back through that redo). `HierarchySound` is what `validateHierarchy` would
check. `PinnedStaysPut` exempts undo, redo and the re-parenting done by
`ungroupObjects`, which has no pin check.

The run `canvas` checks it as the local preview (`Preview...` in `MCCanvas`). The
proofs have no bound on commands, objects or sizes.

*Bounds.* Five commands reach every nesting of undo, redo and new commands
that matters (undo of a redo of an undo needs four); three objects reach a
frame in a frame with contents. Identifiers are symmetric.

### RoomDatabase

The rows and receipts that `commit_canvas_mutation_at_revision` writes, and the
`history` that `reconstructHistory` makes of them, one pass per receipt. A
command is planned by the engine on the canvas just loaded and committed under
the room's row lock at the revision it was planned for, so planning and commit
are one step; a call the database refuses is no step. The planning rules are
those of `CommandEngine` (`Engine`, an instance over the rows and the rebuilt
history). What the database does by itself is modelled from its SQL: what an
undo or a redo may name (`UndoTargets`, `RedoTargets`), the inverses it derives,
`ChangeAllowed` and the checks of the parent graph, versions that only grow and
rows that are never deleted.

`CommittedLoads` is what `parseCanvasPersistenceRows` asks of the stored rows.
`ReversalsAgree` says that the planner and the database, which compute it in
different ways, mean the same receipt by "the latest", and that it can be
reversed. `PlansAreCommitted` compares the planner's rules with the database's
for the commands that move objects or flags; it names the three reasons for which
the database refuses a plan of the engine: a frame carries an object out of the
coordinate bounds; a command would change more objects than `ChangeLimit`, which
the move of a frame of nested groups can; and a frame that is ungrouped has pinned
contents.
`ImplementsHistory` is the refinement of `LinearHistory` by what people see:
the canvas without versions and without deleted rows.

*Bounds.* Three objects, five revisions (`RevisionLimit` stands for 400) and two
changes of a command (`ChangeLimit` stands for 50), so that both limits are met: a
frame with two others in it is planned to move and refused. In the code the 20
identifiers of a group keep `objects.group` itself below its limit; here a group of
two is refused as well. `ObjectLimit` (for 160) is three and not met; the theorems
hold for any of the three. Objects are placed at 0 and moved from there.

### ReviewedDiscard

`target` is the `pendingDiscard` of `human-command-control.tsx`. Between
`Review` and `ConfirmDiscard` any command may run. The run
`discard_review` finds `ChangedTargetRefused` violated: undo restores the
object's earlier version number, so versions repeat and the version check of
the confirmation can pass for other content.

### CanvasLoad

`ReadRoomBefore`, `ReadObjects`, `ReadReceipts`, then `Conclude`, `Retry` or
`GiveUp`, which read the room row again. A commit is one transaction, so a
table is the revision it was read at. A closed room reads as empty tables and
no room row. `Unavailable` is any request failing. `Verdicts` is what
`parseCanvasPersistenceRows` can say: matching tables parse; receipts ahead of
the objects never do; receipts behind may go unnoticed.

*Bounds.* Two loaders (a browser and the service, whose last refusal differs)
and two commits, which is what `GiveUp` needs. The proofs have no bound.

### SharedRoom

A canvas is the revision it is at, justified by `ImplementsAtomicLoad`; a
command is its request identifier. `log` is the list of committed requests.
The session's `snapshot.state.revision` is `view`, which is also the revision
of its canvas store, since both change together. Each request passes the
stages of `commitCommand`: load and compare the base revision, plan (or be
refused), commit under the room lock, verify by another load, answer. The
database call may throw with or without having taken effect (`CommitUnknown`),
the function may die (`LoseRequest`), the caller may abort or lose the
connection while the service goes on (`NoAnswer`), broadcasts may come late, in
any order, or never. `FinishReload` is the body of the reload loop after its
await, with its four error exits.

*Fairness.* `FairSpec` assumes that a fetch settles, one way or the other, and
that a reload's reads complete; nothing about people, the channel or the
service. A browser's fetch ends with an answer or a network error.

*Bounds.* Two sessions and two commands for safety: the second session's
commit is what overtakes. One session and two commands for liveness. The
proofs have no bound.

*Violation.* `room_reconnect`: a session that connects after missing a
broadcast shows `ready` and an old canvas until the next commit.

*An observation.* A committed command is reported as `canvas_hydration_refused`
when a reload for its own broadcast was hydrated before its answer
(`lib/demo/room-session.ts:719`): the session hydrates where it could confirm.
No property says otherwise: the command is in the log and on the canvas.

### RoomRealtime

The controller of `room-channel.ts`. `ctl` is the record of its own variables
(`online`, `recoveryNeeded` as `needed`, `recoveryAwaitingChannelOutcome` as
`awaiting`, `retryAfterWork` as `again`, `pendingRemovalChannel` as `removing`
and so on); `scheduleRecovery`, `startRecoveryAttempt`, `requestRecovery` and
the handler of `reconnectWork` are operators from one such record to the next,
so that each action applies exactly the calls its callback makes. A step runs
the code between two awaits: a removal and `setAuth` are the two that
`reconnectWork` waits for. `channelEpoch` is only compared with the epoch of
the current channel, so `fresh` stands for that comparison. Each channel object
has its `terminal` flag and its `track` call; late callbacks of replaced
channels arrive (`Tracked`, `TrackFails` of a channel that is not current) and
must not count. A removed object's identity is used again when none of its
callbacks is outstanding. `TimerFires` may come at any time after the timer is
set. `subscribe` may report a failure before it returns
(`room-channel.test.ts:905`).

*Fairness.* Promises of the Realtime client settle, set timers fire, and a
subscription that is waited for reports success or failure (the client's
join timeout). Nothing is assumed of connectivity.

*Bounds.* Three channel objects (the current, and two with callbacks still
outstanding) and two attempts in `room_safety`; two channel objects in `liveness`,
one replaced by the other and back. The proofs have no bound.

*An observation.* `RecoveryNotForgotten` is about what the controller takes
connectivity to be. If it starts with the browser offline and the online event
arrives while nothing has failed yet, that event is ignored
(`lib/realtime/room-channel.ts:334`), and a later failure is not retried although
the browser is online.

`SharedRoom` uses the controller as a channel that may go up and down at any
time; `ConnectedIsCurrent` and `DisposedIsQuiet` are what makes its `ChannelUp`
and its disposal faithful to it.

### PacketDelivery

`packets`, `requests`, `shares` and `admitted` are the tables
`meeting_packets`, `packet_send_requests`, `outbound_shares` and
`packet_resend_admissions` of one room. Every database function takes the
room's row lock first (`assert_packet_host`), so each is one action named after
what it does: `Prepare`, `UpdateDraft`, `Approve`, `StageSend`, `CancelSend`,
the three outcomes of `reserve_packet_resend_admission`, the four of
`authorize_meeting_packet_send`, `EventApplies` and `EventUnmatched` for
`apply_resend_delivery_event`. `runs` are the executions of `executeSend`
(`server-service.ts`), whose `phase` is the call it waits for: `reserving`,
`authorizing`, `posting` to the provider, `completing`, and after a failure to
record an accepted mail `recording` and `recovering`. A call that takes effect
may lose its answer, a call may fail, and `Crash` ends the function at any
point. A submission whose caller has stopped waiting is in `transit`: the
provider may still take it.

*Data.* A draft stands for title and recipients, which is what the host edits;
the snapshot digest is the pair of packet and draft. One message id belongs to
one idempotency key, so `shares[r].known` says that it is on record. The four
rate windows are one `Quota`. `lapsed` is `expires_at` in the past. The
activity receipts and the branch of the authorisation for a snapshot that was
altered in the database by other means are left out.

*The provider* is external: one mail per idempotency key, which is what the
code relies on when it submits again after an ambiguous answer. In the passing
runs its verdict on a key is stable: a key once refused is not taken later, and
the other way round. `FickleProvider` lifts that: a revoked API key or a
suspended domain makes a retry fail whose first submission was taken.

*Properties.* `OneEmailPerApproval`, `FinishedIsUnsent`, `SubmittedIsTrue` and
`ReportsAreHonest` are the truth of the record. `StagedIsApproved` shows that
the comparison with the approval inside the authorisation never finds a
difference while edits expire what is staged. `WithdrawnStaysUnsent` is what they
are for: a send that the host cancelled, that an edit expired or whose time was
over before it was authorised is never mailed, although loading, admission,
authorisation and submission are steps apart and may be repeated. `NewestEventShows`, `DeliveryNeverRegresses` and
`RequestFollowsShare` are about the order of events, `DeliveryIsShown` about
events that come before the message id is on record.

*Bounds.* Two requests are what a second mail of a snapshot needs, two
executors what a race of one request needs, a draft with and one without
recipients what an edit and its reversal need, and one admission per window
lets the quota be met; `packet_sends` has all of these and one event of each mail.
`liveness` has one request, one executor, which may execute it again, and
three events of its mail, which is every history the provider can report
(taken, delivered, complained; taken, bounced). There `WithdrawnStaysUnsent` meets
an executor that loaded or admitted the send before it was withdrawn; that a second
one changes nothing is the theorem's.

*Fairness.* The provider repeats an event until the route answers with
success; nothing is assumed of the host or the server functions.

*Violation.* `packet_expiry`: the admission refuses a mail send that has
lapsed without ending it, so it keeps the snapshot staged although the host is
told it is no longer available.

*What a fickle provider does.* With `FickleProvider = TRUE` TLC finds
`OneEmailPerApproval` violated: an ambiguous submission that was taken,
followed by a refused retry, is recorded as failed, and the snapshot is staged
and mailed again under another key.

### MeetingMedia

One `createMeetingMediaController` per participant. `starting` is the await a
start is at, `work` the chain of `signalWork` and `step` the await the handler
of its head is at; everything else (stop, dispose, roster changes, callbacks of
channels and peers) may come at each of these. `life` is `lifecycleVersion`,
which the code compares after most awaits and not after all; the model compares
exactly where the code does. `net[q][p]` holds the signals on q's topic that p
has not yet received; a signal sent on a channel that is not joined reaches
nobody, and on an own channel still joining it travels by HTTP as the client
library does. A peer record holds what it was made for (`of`, the stream) and
what its camera sender sends (`video`).

*External.* `Connect`, `ConnectionFails` and `CandidateFound` are the browser's
(`RTCPeerConnection`): two peers whose descriptions answer each other
(`Paired`) come up; operations pending on a closed peer reject. One candidate
per peer stands for several.

*Properties.* `StalePeersWereBare` is what the checks after the awaits amount
to: a peer can outlive the stream it was made for only in the one window the
code leaves open. `MissedOnlyUnheard` is the safety side of the calls: when
nothing is left to happen between two participants whom nobody disturbed
(`Settled`), they are connected, unless one made an offer that nobody heard.

*Violation.* `meeting_calls`: that offer. It is broadcast before the other side
has joined the topic, and its local description keeps it from being made again.

*Bounds.* Two participants; six scenarios (`MCScenarios`), chosen in the initial
state, each with its number of streams, camera switches, events (stops,
disposals, rosters) and faults, because everything at once is out of reach. A
third participant adds only pairs, since peers of different participants share
nothing but the queue. Two are never over capacity by their number, only by
decision; the theorems hold for any number.

*Fairness.* Promises of the browser settle, channels join, signals arrive and
paired connections come up. Nobody has to press anything.

### LocalMediaBroker

The leases of camera and microphone (`local-media-broker.ts`). A request waits
for the kinds it needs; `Lease` counts the references and clones, `Release`
gives back. `DevicesAccounted` excepts one case, `unwanted`: a microphone is
refused while the camera's permission is still asked, and the camera that opens
afterwards runs unleased until the next release or the disposal.

*Bounds.* Three borrowers, three tracks of each kind: two that share, one that
comes while the last leaves.

### VisionAdmission

A call of the vision route: admitted (`Admit`, `Deny`, `Refuse` or the cached
answer), then at the provider outside any transaction, then recorded
(`Complete`) or released, or dead (`Crash`) at any point. Each database function
is one action, since it holds its actor's and room's locks to the end, but
`stamp` is the clock as it was read before the locks were waited for, so calls
are decided out of the order of their times. Rooms expire and are deleted,
sketches change, answers are lost. The daily limit of standard rooms, one more
count of the same kind, is left out.

`SpendIsBounded` sets apart the calls that read the clock on one day and were
admitted on the next, which the trigger's own clock counts on neither.

*Bounds.* Three calls of two actors, two rooms and three keys; a lease, a rate
window and a day of two ticks, watched for two; one upset.

### SessionQuota

The three admission functions of voice sessions, private hand relays and TURN
credentials. They differ in the limits they count and in replays, and `service`
says which is watched. Calls read the clock when they arrive (voice twice) and
are decided when they hold the locks, at most `MaxWait` later. The TURN ledger
answers a known request id with the time first issued.

*Assumption.* No call waits for its locks as long as rows are kept beyond the
longest span: `QuotaDay + MaxWait =< Retention`. In the code these are a day and
a week; without it a row that still counts could have been cleared away.

*Bounds.* A window of one tick, a day of two and a retention of three, watched
for four ticks, let rows cross each of them; three calls exceed limits of one
(an actor's window) and two (all others).

### VoiceSession

`client.ts` ties each response of the speech service to the utterance it
answers (`pending`, `bound`, `followups`), queues the function calls of a session
(`calls`), and hands settled responses and transcripts to the handlers of
`realtime-voice-control.tsx`, which buffer turns and let them leave from the
front (`Drained`) into `appends`, the queue of writes to the thought card. Tool
calls await the room and then that queue. `generation` and `epoch` are the two
counters that tell sessions apart. The service has one response under way at a
time, answers every utterance and sends one transcript for each, and drops what
it had to say when the connection closes. `Continues` are the continuations of
awaits that are over, which run before anything else can come in.

`meant`, `silent`, `dropped` and `forgotten` are notes for the properties: the card
that was selected when an utterance began during a capture; whose transcript had no
words; which turns were in the buffer when a removed card emptied it; and how many
utterances there were when the buffer was last emptied.

`DictationKeepsOrder` is about the text of all cards together: each utterance is
written once, in the order of speech from card to card, none that was said outside a
thought, and none on a card before the one it was said for. Two thoughts, tool calls
between them, stops, restarts and late answers are all included. Set apart are the
turns that `cancelThoughtCapture` dropped: their session goes on, so their
transcripts still come and make them again, for the capture of that moment; they are
only written once. `OnlyRemadeTurnsBlock` says that a turn that holds back the
others waits for something that comes, except for the turns it lists.

*Violation.* `voice_card`: that an utterance is written on the very card it was said
for (`WrittenWhereSaid`) does not hold. A buffered turn remembers that capture was
on when it began but not for which card, and an append reads the active thought only
when it is sent (`realtime-voice-control.tsx:465`). In one session without any fault,
an utterance whose transcript comes after the next one's tool call has started a
second thought is written on the second card. So the card it is on is never before
the one it was said for, but may be after.

*Violation.* `voice_followup`: in one session without any fault, a tool call of
a follow-up response, which is bound to no utterance, makes the current turn
again after it has left; nothing settles it, and no later utterance of the
session is dictated.

*Observations.* A start of a capture that awaited an append goes on after its
session has ended (`realtime-voice-control.tsx:217`): the next session then has
a capture with the signal of the old one and refuses what is said. The tools
other than starting and finishing a thought go through `invokeCapability` and not
through `onIntent`, so they are neither refused during a capture nor is their
speech kept from the card.

*Left out.* The microphone and WebRTC set-up (`Acknowledged` stands for all of
it), transcript deltas and drafts, spoken context for sketches, and the limits
of 16 and 32 remembered turns, which the bounds do not reach.

*Bounds.* One session with three utterances, the first and the third of which may
begin a thought, so that the second can be overtaken by a change of cards; one with
two, any tool calls and their follow-ups; and two sessions with two utterances, three
responses and one fault. Two utterances dictated one after the other can change
places; a second session meets what the first left behind. `callers` says which
responses may call a tool.

## What is proved

Theorems hold for every value of the constants that satisfies the named
assumptions, which say that null (`None`, `Nothing`, `NoChannel`) is none of the
values it is told apart from, that bounds are numbers and, where it says so
below, what the code relies on.

Two things about the form. Recursion is by recursive functions only, and what
they compute is proved by induction in the form `LeastNat`
(`SelectionProofs`): what fails fails first somewhere. And a sequence that is
filtered is `Selected`, with the test given as the places that pass, so that one
set of lemmas serves every filter of the code.

### The canvas

`CanvasCommandsProofs` holds what the engine and the database share: the types
of the patches, that each of the nine commands keeps the hierarchy of frames
(`...Sound`: a discard with its contents, a frame round others, an ungrouping that
hands its contents to the frame above), and the shape of a log. `LogSound` is
what a reversal may name when it is committed, `UndoneSound` and `RedoSound` what
the set of undone receipts and the redo stack hold.

`CommandEngineProofs`, for any objects, texts and sizes and any number of
commands, from `SchemaAssumption` and `CommandAssumption`: `EngineInvariant`,
`EngineSound`, `PinnedObjectsStay` and `EngineImplementsHistory`. None of these
speaks of how a canvas came about, so none is inductive. `Inv` adds the canvases
the engine has been through (`Past`): receipt k records the step from canvas
k - 1 to canvas k, and a reversal leads back exactly to the canvas before the
receipt it names (`Retraces`). That a canvas reached by undo is sound is then no
fact about undo: it was there before. For the refinement the undoable receipts
and the redo stack are each put in order; the canvases before the ones are the
past and those before the others the future (`Behind`, `Ahead`), and a step
pushes or pops one end of them.

`CanvasProofs` shows the same of the stored canvas, from `DatabaseAssumption` in
addition, where undo is harder: versions only grow, created objects stay as
deleted rows, and the planner and the database compute "the latest" in different
ways. A canvas `Matches` an earlier one if the same objects are live in the same
state; a reversal returns to a canvas that matches (`Returns`).

* `EverythingCommittedLoads` and `RoomInvariant`: every committed table is a sound
  canvas, and its rows are those the latest receipts say.
* `EveryReversalAgrees`: that what undo or redo names left the rows as they are
  now needs `Returns` for all receipts below it, not only the named one.
* `EveryPlanIsCommitted`: what the engine accepts on such a table passes every
  check of the database but for the three reasons that `PlansAreCommitted` names.
* `RoomWalksOneHistory`: canvases that match look alike (`MatchesShown`), so the
  canvases as people see them retrace each other exactly and the argument of the
  engine applies to them (`Planner`).
* `PreviewStaysSound`, `PreviewKeepsPinned`, `PreviewWalksOneHistory`: the
  theorems of the engine, by name, for the preview.

### Rooms and their sessions

`SharedRoomProofs`, for any sets of sessions and requests, from
`RoomAssumption`:

* `TypeCorrect`: the type invariant.
* `CommitsMeetTheirCanvas`, `AcksAreDurable`, `RefusalsAreFinal`,
  `ViewsOnlyGrow`, `DisposalIsFinal`: the safety properties of `room_safety` of
  the same content.

None of these is inductive alone. `RoomInv` adds where a request can be
(`NotYetLogged`: not in the log before its commit; `Unsubmitted`), what a stage
or an answer implies about the log (`CommittedIsLogged`, `RefusedIsOut`), that
an acknowledged command is shown (`AckShown`), and that no session or reload is
ahead of the log (`NothingAhead`). `NotYetLogged` is what keeps the log's
entries tied to their base revisions when a base is set; `NothingAhead` is what
makes a commit verification or a reload move a view forward only. The steps of
the sessions alone are covered by one lemma (`QuietStep`), the answers by
another (`AnswerStep`), the commit by `WriteStep` and the settling by
`SettleStep`.

`ServicesProofs` is about five small components that share nothing.

*Loading*, for any loaders and any number of commits, from `LoadAssumption`:
`LoadsAreAtomic` (the refinement of `AtomicLoad`) and `CorruptionIsReal`. The
invariant is the bracket: while the room is readable, each table read lies
between the first room row and the present, so an unmoved room row pins both.

*The room channel*, for any set of channel objects and any bound on the
attempts, from `RealtimeAssumption`: `RetriesBounded`, `OneChannel`,
`NoChannelLeaks`, `ConnectedIsReal`, `FailuresAreRetried` and
`DisposalIsQuiet`, and `ChannelsAreAccounted`, which is two of these together:
every safety property of the controller that `room_safety` checks.
`RealtimeInv` has three parts. `Sound` relates the controller's variables to
each other: a channel is held only while no work is under way, a timer is set
only while an attempt is left, a follow-up is marked only while work runs.
`Held` relates them to the channels that are open, and `Outcomes` says that
what is waited for can still come. `Remembered` is the property about retries
on the record alone. One lemma per function of the controller (`ReplaceSound`,
`ScheduleSound`, `SettleSound`, `RequestSound`) shows that its result satisfies
`Sound` and `Remembered`; the lemma of an action is then its assignments and a
citation of one of these.

*Session quotas*, for any calls, actors, limits and spans, from
`QuotaAssumption`: `LimitsAlwaysHold` and `RetriesAlwaysSpendOnce`. A call may
be decided after one that arrived later, so its span is counted from its start
on, later rows included. Of the spans its own row falls into, each row is
therefore among what it counted (`SpanIsCounted`). The
strengthening says that waiting calls are recent and that only old rows have
been cleared away.

*Vision admission*, for any calls, actors, rooms, keys, limits and spans,
from `VisionAssumption`: `OneCallAtATime`, `AnswersAlwaysAgree` and
`SpendAlwaysBounded`. A call in its lease holds its row (`LeaseIsHeld`) and a
room has one active row (`OneActiveRow`). That no other call takes the row away
early needs `ClockWasRead`: whoever is admitted has read a clock that has not
passed the lease either. Answers agree because all of them are the recorded
result (`AnswersAreRecorded`), which nothing replaces while its room lives.

*The local devices*, for any borrowers and number of openings, from
`BrokerAssumption`: `DevicesAlwaysAccounted` and `LeasesAlwaysKeepTracks`. The
counters count the leases (`ReferencesCount`), and no track of a kind runs while
one is asked for (`OpeningIsDark`), so an opening never overwrites a source that
runs.

### Packets

`PacketDeliveryProofs`, for any number of packets, drafts, requests, server
functions and events, from the assumptions of the module: every property of
`packet_sends`, that what is withdrawn stays unsent (`WithdrawnIsNeverMailed`), and
the order of delivery events. `AtMostOneEmail`,
`FinishedStaysUnsent`, `ReportsStayHonest` and `RecordStaysTrue` assume a
stable provider; the others do not. `PacketInv` has four parts. `RecordSound`
is what the status of a request says of its share and of the provider
(`Agree`), and `OneActive` that a request which is neither over nor unused is
the only one of its snapshot, which is what the staging checks establish and
nothing afterwards breaks. `RunsSound` is what the progress of an execution
says of its request: who submits was authorised to mail, who records a success
was answered with one, who records a failure was refused. `MailSound` keeps the
provider to what was authorised. `FinishedIsUnsent` alone is not inductive: it
needs that a recorded failure was a refusal, and a refusal is recorded only by
an execution that got one.

`NewestAlwaysShows` adds `Told`: the provider numbers what it reports of a mail
in order, a share names the event whose status it shows, and no settled event is
newer than that one. An executor that comes back late may write a status, but
none that an event gives (`ShareSteps`).

### Meetings and voice

`MediaProofs` is about two components that share nothing.

*The media controllers*, for any participants and scenarios, from
`MediaAssumption`: `TypeCorrect`, `DevicesAlwaysReleased`,
`StalePeersAlwaysBare` and `SendersAlwaysFollow`. Their invariant is about one
controller at a time (`Controller`), and a step of one leaves what it says of
the others alone (`OthersAreKept`, `KeptStays`). `Underway` relates `step` to
the head of the queue, `Held` the stream to the devices, and the last queued
switch of the stream is what the participant chose (`LastDecides`); a peer
sends the choice unless a switch is still to come (`PeerSound`). Of a peer
whose handler awaits `replaceTrack(null)` it needs that it is bare: this is the
one await after which the code does not look again.

*The calls*: `CallsMissOnlyUnheard`. Its invariant `Calm`, which holds while
nobody is disturbed, is about the two ends of a connection and what is on its
way between them (`Coming`: on the topic or in the queue). What one end heard
was said by the peer the other still has (`SaidByPeer`), so no description is
refused that was not taken before and no candidate is of another peer; an answer
that was given is taken or coming (`AnswerComes`), so is a candidate that was
found (`CandidateComes`), and a description that was taken is that of the other
end, which is described too (`Stands`). Once both have joined both topics one of
them has made an offer or will hear of the other (`Told`): whichever of the four
channels joins last announces its owner. What a handler knew before its await is
so still (`StillSo`), and there is room for every peer because a roster over
capacity neither starts nor stays (`RoomForOne`), which needs that there are
finitely many participants. One lemma per kind of signal says what it does to
such a pair (`PairOffers`, `PairAnswers`, `PairAgrees`, `PairAdds`, ...).
`MissedOnlyUnheard` says nothing before everything has settled and is far from
inductive.

*Dictation*, for any utterances, sessions, responses, tool calls and faults, from
`VoiceAssumption` and `TurnAssumption`: `DictationAlwaysKeepsOrder` and
`OnlyRemadeTurnsEverBlock`.
`DictationInv` puts what is buffered, queued for the card and written on one
line (`InPlace`). Each utterance since the buffer was last emptied is in it or
has left it (`Complete`); what was written is ahead of what is queued and that of
what is buffered, and each part is in the order of speech (`QueueInOrder`,
`BufferInOrder`). What may still be dictated is nowhere yet (`Unsaid`), which is why
a turn that a late response or tool call makes again is not written again: its
transcript has come. That nothing is written before its card needs that the cards
only move on: no words are said for, on their way to or written on a card beyond the
present one, nor is the present one beyond those of the tool calls that await the
queue, which come in its order (`Ahead`, `Reaches`, `Within`). A step leaves the
line alone (`Quiet`), moves the front of the buffer to the end of the queue, moves
the front of the queue to a card, or empties the buffer. The property alone says
nothing of the queue and is not inductive.

`OnlyRemadeTurnsEverBlock` relates the turns to what the service still has to
say (`WaitsInv`). It owes a response for each pending utterance and each
follow-up, no more and no less (`Owed`), so that whatever is pending is bound in
the end; a turn held back since the buffer was last emptied has its response on
its way and its transcript to come (`HeldBack`); the first turn is not ready, or
it would have left (`FirstUnready`). Such a turn is never made anew: what a step
holds back was held back before and waits for no more (`Follows`). This needs
`Complete` of `DictationInv`, that each utterance is in the buffer or has left
it.

### What is not proved

Liveness is model-checked only: TLAPS proves none under fairness. Every
invariant that a passing run checks is stated by a theorem. Of `ReviewedDiscard`
nothing is proved, since its one property fails. What the other violation runs
refute is refuted on their instances.

## Plan

1. `Invitations`: staging, authorising and sending them, their delivery events.
2. The packet, sketch and delete calls of the room session.

## Not modelled

Invitations, demo admission, credentials, profiles and the vision lab are calls
that each check and write under one lock; what of them disturbs others (a room
that expires or is deleted) is an action of the modules it disturbs. Most of
the code by lines is generated (`public/mediapipe`), draws, or processes
signals (hand landmarks, strokes): arithmetic over real numbers without
concurrency of its own. Nothing of these is modelled: rendering, layout,
styling, gesture signal processing (filters, calibration arithmetic),
rasterising, e-mail wording, route handlers that only validate and forward. The
hosted services (Supabase Realtime and Auth, the e-mail and model providers)
appear as the environment.
