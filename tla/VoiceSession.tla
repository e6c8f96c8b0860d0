---------------------------- MODULE VoiceSession ----------------------------
(***************************************************************************)
(* Live voice: the session of lib/realtime-voice/client.ts, which ties     *)
(* what the speech service answers to the utterance it answers, and the    *)
(* handlers of components/command-canvas/realtime-voice-control.tsx, which *)
(* dictate utterances into a thought card while thought capture is on.     *)
(*                                                                         *)
(* Utterances are numbered as they are spoken.  An utterance goes to the   *)
(* card once its response is settled and its transcript has come, in the   *)
(* order of speech.  Tool calls and appends await the room, and the        *)
(* session may be stopped and started again meanwhile.                     *)
(***************************************************************************)
EXTENDS Naturals, Sequences, SequencesExt, Selection

CONSTANTS
  Nothing,
  VoiceLimits   \* bounds of a behaviour; several to choose from

ASSUME VoiceAssumption ==
  /\ Nothing \notin Nat
  \* callers: the responses that may call a tool; faults: refusals, removed cards
  \* and transcripts without a word
  /\ \A b \in VoiceLimits :
       {b.utterances, b.sessions, b.responses, b.cards, b.faults} \union b.callers \subseteq Nat

VARIABLES
  status,        \* state.status: listening, thinking and speaking are "live"
  generation,
  pending,       \* pendingInputItemIds
  bound,         \* responseInputItemIds: what the response under way answers
  settled,       \* settledInputItemIds
  followups,     \* pendingToolFollowupResponses
  calls,         \* toolQueue: the function calls that have not returned
  settling,      \* responses that await toolQueue to be settled
  epoch,         \* sessionGeneration
  capture,       \* thoughtCaptureActive
  card,          \* activeThoughtObjectId
  signal,        \* activeSessionSignal, by its generation
  buffer,        \* currentTurnKey, turns, orderedTurnKeys, ignoredLateTurnIds
  appends,       \* thoughtAppendQueue, with the intents that await it
  roomCard,      \* activeVoiceThoughtIdRef of the room
  cards,         \* the text of each thought card: utterances
  removed,       \* cards that a collaborator removed
  spoken,        \* how many utterances there were
  transcribing,  \* utterances whose transcript is to come
  unanswered,    \* utterances whose response is to come
  response,      \* the service's response under way
  asked,         \* response.create messages on their way
  responses,     \* how many responses there were
  meant,         \* the card that captured each utterance when it began
  silent,        \* utterances whose transcript had no word
  dropped,       \* utterances forgotten from the buffer with the session still open
  forgotten,     \* the last utterance when the buffer was last emptied
  voiceLimit, voiceFaults

session == <<status, generation>>
association == <<pending, bound, settled, followups>>
tools == <<calls, settling>>
dictation == <<epoch, capture, card, signal>>
room == <<roomCard, cards, removed>>
speech == <<spoken, transcribing>>
notes == <<meant, silent, dropped, forgotten>>
buffering == <<buffer, appends>>
responding == <<unanswered, response, asked, responses>>
voiceBounds == <<voiceLimit, voiceFaults>>
voiceVars == <<session, association, tools, dictation, buffering, room, speech,
               responding, notes, voiceBounds>>

-----------------------------------------------------------------------------
(* The buffered turns.  An utterance has one transcript, so what a turn    *)
(* holds for the card is whether it is there.                              *)

Utterances == 1..voiceLimit.utterances

Turn == [ capturing : BOOLEAN, transcribed : BOOLEAN, available : BOOLEAN,
          thought : BOOLEAN, suppress : Nat,
          outcome : {"none", "completed", "interrupted"} ]

\* null is no turn and no response.
ASSUME TurnAssumption == Nothing \notin Turn \union [ id : Nat, calls : BOOLEAN ]

NewTurn == [ capturing |-> capture, transcribed |-> FALSE, available |-> FALSE,
             thought |-> FALSE, suppress |-> 0, outcome |-> "none" ]

EmptyBuffer == [ current |-> 0, turns |-> [i \in Utterances |-> Nothing],
                 order |-> << >>, ignored |-> {} ]

\* ensureTurn.  MAX_TRACKED_VOICE_TURNS and MAX_IGNORED_LATE_TURNS are beyond
\* the bounds.
Ensured(b, i) ==
  IF b.turns[i] # Nothing THEN b
  ELSE [b EXCEPT !.turns[i] = NewTurn, !.order = Append(@, i)]

IsReady(t) ==
  /\ t.outcome # "none"
  /\ t.outcome = "completed" => t.transcribed

\* Faulty variant: a turn that is ready does not wait for those before it.
LeavingUnordered(b) ==
  Selected(b.order, { n \in 1..Len(b.order) : IsReady(b.turns[b.order[n]]) })

\* drainReadyTurns: the turns that leave from the front.
Leaving(b) ==
  LET ready(n) == \A k \in 1..n : IsReady(b.turns[b.order[k]])
  IN  SubSeq(b.order, 1, CHOOSE n \in 0..Len(b.order) :
                           ready(n) /\ (n < Len(b.order) => ~ready(n + 1)))

Drained(b) ==
  LET gone == Range(Leaving(b))
  IN  [b EXCEPT !.turns = [i \in Utterances |-> IF i \in gone THEN Nothing ELSE @[i]],
                !.order = Selected(@, { n \in 1..Len(@) : @[n] \notin gone }),
                !.ignored = @ \union gone]

\* commitTurn and queueThoughtAppend for each of them.
Committed(b) ==
  LET leaving == Leaving(b)
      Says(i) == b.turns[i].outcome = "completed" /\ b.turns[i].thought
      thoughts == Selected(leaving, { n \in 1..Len(leaving) : Says(leaving[n]) })
  IN  [k \in 1..Len(thoughts) |-> [turn |-> thoughts[k], epoch |-> epoch, to |-> Nothing]]

\* thoughtAppendQueue holds appends, the first of which is on its way to the card
\* (to), and between them the intents of tool calls that await those before.
IsIntent(e) == "call" \in DOMAIN e

\* The check of an append when its turn comes.
Lapsed(e) == \/ e.epoch # epoch
             \/ signal # Nothing /\ signal # generation

\* The queue after a change: the first append is sent, with the card of now.
Moved(queue) ==
  LET Stays(e) == IsIntent(e) \/ e.to # Nothing \/ ~Lapsed(e)
      kept == Selected(queue, { n \in 1..Len(queue) : Stays(queue[n]) })
      first(n) == ~IsIntent(kept[n]) /\ \A k \in 1..n - 1 : IsIntent(kept[k])
  IN  [n \in 1..Len(kept) |->
         IF first(n) /\ kept[n].to = Nothing
         THEN [kept[n] EXCEPT !.to = IF card = Nothing THEN 0 ELSE card]
         ELSE kept[n]]

Drain(b) ==
  /\ buffer' = Drained(b)
  /\ appends' = Moved(appends \o Committed(b))

\* reserveCurrentTranscriptForTool; without an utterance, of the current turn.
Reserved(b, utterance) ==
  LET i == IF utterance = 0 THEN b.current ELSE utterance
      on == Ensured(b, i)
  IN  IF i = 0 THEN b
      ELSE IF on.turns[i].available
      THEN [on EXCEPT !.turns[i].available = FALSE, !.turns[i].thought = FALSE]
      ELSE [on EXCEPT !.turns[i].suppress = @ + 1]

-----------------------------------------------------------------------------
(* Starting and ending a session.                                          *)

Active == status \in {"connecting", "live"}

\* resetSessionContext.
Reset ==
  /\ epoch' = epoch + 1
  /\ capture' = FALSE
  /\ card' = Nothing
  /\ signal' = Nothing
  /\ buffer' = EmptyBuffer
  /\ forgotten' = spoken
  /\ UNCHANGED <<meant, silent, dropped>>

VoiceFault == voiceFaults < voiceLimit.faults /\ voiceFaults' = voiceFaults + 1

StartVoice ==
  /\ ~Active
  /\ generation < 2 * voiceLimit.sessions - 1
  /\ Reset
  /\ generation' = generation + 1
  /\ status' = "connecting"
  /\ UNCHANGED <<association, tools, appends, room, speech, responding,
                 voiceBounds>>

\* acknowledgeSession, at the end of what start awaits: the permission, an offer,
\* the session request and its answer.  A start whose session has ended meanwhile
\* stops what it gets and changes nothing.
Acknowledged ==
  /\ status = "connecting"
  /\ status' = "live"
  /\ UNCHANGED <<generation, association, tools, dictation, buffering, room,
                 speech, responding, notes, voiceBounds>>

\* releaseResources, and with the connection all that the service has to say.
Release ==
  /\ generation' = generation + 1
  /\ pending' = << >> /\ bound' = 0 /\ settled' = {} /\ followups' = 0
  /\ transcribing' = {} /\ unanswered' = << >> /\ response' = Nothing /\ asked' = 0
  /\ UNCHANGED <<tools, appends, room, spoken, responses, voiceLimit>>

\* stopVoice, or the effect of a control that is disabled.
StopVoice ==
  /\ Active
  /\ Release /\ Reset
  /\ status' = "idle"
  /\ UNCHANGED voiceFaults

\* A refusal, a timeout, an error of the service or of the connection.
SessionFails ==
  /\ Active /\ VoiceFault
  /\ Release /\ Reset
  /\ status' = "error"

-----------------------------------------------------------------------------
(* What the service hears and answers, each event as the client gets it.   *)

\* rememberPendingInputItem.
Remembered(i) ==
  IF i \in Range(pending) \union settled \/ (response # Nothing /\ bound = i) THEN pending
  ELSE Append(pending, i)

SpeechStarts ==
  /\ status = "live"
  /\ spoken < voiceLimit.utterances
  /\ LET i == spoken + 1
     IN  /\ spoken' = i
         /\ transcribing' = transcribing \union {i}
         /\ unanswered' = Append(unanswered, i)
         /\ pending' = Remembered(i)
         /\ buffer' = [Ensured(buffer, i) EXCEPT !.current = i]
         /\ meant' = [meant EXCEPT ![i] = IF capture THEN card ELSE Nothing]
  /\ UNCHANGED <<session, bound, settled, followups, tools, dictation, appends,
                 room, response, asked, responses, silent, dropped, forgotten,
                 voiceBounds>>

\* rememberUserTranscript: the words of utterance i, which may be those that
\* begin or end a thought (isThoughtBoundaryTranscript).
Heard(i, boundary) ==
  LET on == Ensured(buffer, i)
      t == on.turns[i]
      heard == IF t.suppress > 0 THEN [t EXCEPT !.transcribed = TRUE, !.suppress = @ - 1]
               ELSE [t EXCEPT !.transcribed = TRUE, !.available = TRUE,
                              !.thought = t.capturing /\ ~boundary]
  IN  IF i \in buffer.ignored THEN UNCHANGED buffering
      ELSE Drain([on EXCEPT !.turns[i] = heard])

Transcribed(i, boundary) ==
  /\ i \in transcribing
  /\ transcribing' = transcribing \ {i}
  /\ pending' = Remembered(i)
  /\ Heard(i, boundary)
  /\ UNCHANGED <<session, bound, settled, followups, tools, dictation, room,
                 spoken, responding, notes, voiceBounds>>

\* A transcript without a word is not handed on.
TranscribedEmpty(i) ==
  /\ i \in transcribing /\ VoiceFault
  /\ transcribing' = transcribing \ {i}
  /\ pending' = Remembered(i)
  /\ silent' = silent \union {i}
  /\ UNCHANGED <<session, bound, settled, followups, tools, dictation, buffering,
                 room, spoken, responding, meant, dropped, forgotten, voiceLimit>>

\* Faulty variant: a follow-up is taken for the answer to the next utterance.
ResponseCreatedForNext ==
  /\ response = Nothing
  /\ responses < voiceLimit.responses
  /\ responses' = responses + 1
  /\ \/ /\ unanswered # << >>
        /\ unanswered' = Tail(unanswered)
        /\ asked' = asked
     \/ /\ asked > 0
        /\ asked' = asked - 1
        /\ unanswered' = unanswered
  /\ response' = [id |-> responses', calls |-> FALSE]
  /\ followups' = followups
  /\ bound' = IF pending = << >> THEN 0 ELSE Head(pending)
  /\ pending' = IF pending = << >> THEN pending ELSE Tail(pending)
  /\ UNCHANGED <<session, settled, tools, dictation, buffering, room, speech,
                 notes, voiceBounds>>

\* The service answers the next utterance or a response.create of the client;
\* response.created is bound by the count of follow-ups alone.
ResponseCreated ==
  /\ response = Nothing
  /\ responses < voiceLimit.responses
  /\ responses' = responses + 1
  /\ \/ /\ unanswered # << >>
        /\ unanswered' = Tail(unanswered)
        /\ asked' = asked
     \/ /\ asked > 0
        /\ asked' = asked - 1
        /\ unanswered' = unanswered
  /\ response' = [id |-> responses', calls |-> FALSE]
  /\ IF followups > 0
     THEN followups' = followups - 1 /\ bound' = 0 /\ pending' = pending
     ELSE /\ followups' = followups
          /\ bound' = IF pending = << >> THEN 0 ELSE Head(pending)
          /\ pending' = IF pending = << >> THEN pending ELSE Tail(pending)
  /\ UNCHANGED <<session, settled, tools, dictation, buffering, room, speech,
                 notes, voiceBounds>>

\* queueFunctionItem; a response makes one call (parallel_tool_calls: false).
FunctionCalled(tool) ==
  /\ response # Nothing /\ ~response.calls
  /\ response.id \in voiceLimit.callers
  /\ response' = [response EXCEPT !.calls = TRUE]
  /\ calls' = Append(calls, [ id |-> response.id, tool |-> tool, utterance |-> bound,
                              generation |-> generation, at |-> "queued" ])
  /\ UNCHANGED <<session, association, settling, dictation, buffering, room,
                 speech, unanswered, asked, responses, notes, voiceBounds>>

\* settleResponse.
Settle(i, outcome) ==
  IF i = 0 \/ i \in buffer.ignored THEN UNCHANGED buffering
  ELSE Drain([Ensured(buffer, i) EXCEPT !.turns[i].outcome = outcome])

ResponseDone(outcome) ==
  /\ response # Nothing
  /\ response' = Nothing
  /\ bound' = 0
  /\ settled' = settled \union ({bound} \ {0})
  /\ IF response.calls
     THEN /\ settling' = settling \union { [ call |-> response.id, utterance |-> bound,
                                             outcome |-> outcome ] }
          /\ UNCHANGED buffering
     ELSE Settle(bound, outcome) /\ UNCHANGED settling
  /\ UNCHANGED <<session, pending, followups, calls, dictation, room, spoken,
                 transcribing, unanswered, asked, responses, notes, voiceBounds>>

Returned(id) == \A k \in 1..Len(calls) : calls[k].id # id

\* The response whose call has returned is settled, whatever session it is.
SettleLater ==
  /\ \E s \in settling :
       /\ Returned(s.call)
       /\ settling' = settling \ {s}
       /\ Settle(s.utterance, s.outcome)
  /\ UNCHANGED <<session, association, calls, dictation, room, speech, responding,
                 notes, voiceBounds>>

-----------------------------------------------------------------------------
(* Tool calls.                                                             *)

InSession(call) == call.generation = generation

Without(call) == Selected(calls, { k \in 1..Len(calls) : calls[k].id # call.id })

Placed(call, place) ==
  [k \in 1..Len(calls) |->
     IF calls[k].id = call.id THEN [call EXCEPT !.at = place] ELSE calls[k]]

\* The output and response.create, of a session that is still open.
Answers(call) ==
  IF InSession(call) THEN followups' = followups + 1 /\ asked' = asked + 1
                     ELSE UNCHANGED <<followups, asked>>

Returns(call) == calls' = Without(call) /\ Answers(call)

First(call) ==
  \A k \in 1..Len(calls) : calls[k].generation = call.generation => calls[k].id >= call.id

\* handleFunctionCall begins, after the calls of its session before it.
CallBegins(call) ==
  /\ call.at = "queued" /\ First(call)
  /\ calls' = IF InSession(call) THEN Placed(call, "room") ELSE Without(call)
  /\ UNCHANGED <<session, association, settling, dictation, buffering, room,
                 speech, responding, notes, voiceBounds>>

\* onIntent: what the call said is reserved at once, the rest awaits the appends.
Intent(call, thought) ==
  /\ buffer' = Reserved(buffer, call.utterance)
  /\ appends' = Moved(Append(appends, [call |-> call, card |-> thought]))
  /\ calls' = Placed(call, "queue")
  /\ UNCHANGED <<followups, asked>>

\* invokeCapability answers: the card of start_thought is made even if the
\* session has ended, and then the call is cancelled.
CapabilityAnswers(call) ==
  /\ call.at = "room"
  /\ cards' = IF call.tool = "start" THEN Append(cards, << >>) ELSE cards
  /\ Len(cards') <= voiceLimit.cards
  /\ IF call.tool = "other" \/ ~InSession(call)
     THEN Returns(call) /\ UNCHANGED buffering
     ELSE Intent(call, Len(cards'))
  /\ UNCHANGED <<session, pending, bound, settled, settling, dictation, roomCard,
                 removed, speech, unanswered, response, responses, notes,
                 voiceBounds>>

CapabilityRefused(call) ==
  /\ call.at = "room" /\ VoiceFault
  /\ Returns(call)
  /\ UNCHANGED <<session, pending, bound, settled, settling, dictation, buffering,
                 room, speech, unanswered, response, responses, notes, voiceLimit>>

\* The intent at the head of the queue: startVoiceThoughtCapture and
\* finishVoiceThoughtCapture of the room, and what onIntent makes of the answer.
IntentRuns ==
  /\ appends # << >> /\ IsIntent(Head(appends))
  /\ LET call == Head(appends).call
         thought == Head(appends).card
     IN  /\ \/ /\ call.tool = "finish"
               /\ roomCard' = Nothing
               /\ capture' = FALSE /\ card' = Nothing /\ signal' = Nothing
            \/ /\ call.tool = "start" /\ thought \notin removed
               /\ roomCard' = thought
               /\ capture' = TRUE /\ card' = thought /\ signal' = call.generation
            \/ /\ call.tool = "start" /\ thought \in removed
               /\ UNCHANGED <<roomCard, capture, card, signal>>
         /\ Returns(call)
  /\ appends' = Moved(Tail(appends))
  /\ UNCHANGED <<session, pending, bound, settled, settling, epoch, buffer, cards,
                 removed, speech, unanswered, response, responses, notes,
                 voiceBounds>>

\* The room's answer to the append on its way; a refusal that ends the thought
\* (thoughtCapture: "aborted") ends the capture.
AppendAnswered(answer) ==
  /\ appends # << >> /\ ~IsIntent(Head(appends))
  /\ LET e == Head(appends)
     IN  \/ /\ answer = "added" /\ e.to # 0 /\ e.to \notin removed
            /\ cards' = [cards EXCEPT ![e.to] = Append(@, e.turn)]
            /\ UNCHANGED <<capture, voiceFaults>>
         \/ /\ answer \in {"refused", "aborted"}
            /\ IF e.to = 0 \/ e.to \in removed THEN UNCHANGED voiceFaults ELSE VoiceFault
            /\ capture' = (capture /\ answer = "refused")
            /\ UNCHANGED cards
  /\ appends' = Moved(Tail(appends))
  /\ UNCHANGED <<session, association, tools, epoch, card, signal, buffer,
                 roomCard, removed, speech, responding, notes, voiceLimit>>

Buffered == { i \in Utterances : buffer.turns[i] # Nothing }

\* A collaborator removes the card: the room forgets it and calls
\* cancelThoughtCapture.
CardRemoved ==
  /\ roomCard # Nothing /\ VoiceFault
  /\ removed' = removed \union {roomCard}
  /\ roomCard' = Nothing
  /\ epoch' = epoch + 1
  /\ capture' = FALSE
  /\ signal' = Nothing
  /\ buffer' = [EmptyBuffer EXCEPT !.ignored = buffer.ignored]
  /\ forgotten' = spoken
  /\ dropped' = dropped \union Buffered
  /\ UNCHANGED <<session, association, tools, card, appends, cards, speech,
                 responding, meant, silent, voiceLimit>>

-----------------------------------------------------------------------------
(* An await that is over: an intent at the head of the queue, a response    *)
(* whose call has returned, a call that is the first of its session.       *)
Waiting ==
  \/ appends # << >> /\ IsIntent(Head(appends))
  \/ \E s \in settling : Returned(s.call)
  \/ \E k \in 1..Len(calls) : calls[k].at = "queued" /\ First(calls[k])

VoiceInit ==
  /\ voiceLimit \in VoiceLimits
  /\ status = "idle" /\ generation = 0
  /\ pending = << >> /\ bound = 0 /\ settled = {} /\ followups = 0
  /\ calls = << >> /\ settling = {}
  /\ epoch = 0 /\ capture = FALSE /\ card = Nothing /\ signal = Nothing
  /\ buffer = EmptyBuffer
  /\ appends = << >>
  /\ roomCard = Nothing /\ cards = << >> /\ removed = {}
  /\ spoken = 0 /\ transcribing = {} /\ unanswered = << >>
  /\ response = Nothing /\ asked = 0 /\ responses = 0
  /\ meant = [i \in Utterances |-> Nothing]
  /\ silent = {} /\ dropped = {} /\ forgotten = 0
  /\ voiceFaults = 0

\* What an await that is over continues with, before anything else can happen.
Continues ==
  \/ IntentRuns
  \/ SettleLater
  \/ \E k \in 1..Len(calls) : CallBegins(calls[k])

Events ==
  \/ StartVoice
  \/ Acknowledged
  \/ StopVoice
  \/ SessionFails
  \/ SpeechStarts
  \/ \E i \in Utterances, boundary \in BOOLEAN : Transcribed(i, boundary)
  \/ \E i \in Utterances : TranscribedEmpty(i)
  \/ ResponseCreated
  \/ \E tool \in {"start", "finish", "other"} : FunctionCalled(tool)
  \/ \E outcome \in {"completed", "interrupted"} : ResponseDone(outcome)
  \/ \E k \in 1..Len(calls) : CapabilityAnswers(calls[k]) \/ CapabilityRefused(calls[k])
  \/ \E answer \in {"added", "refused", "aborted"} : AppendAnswered(answer)
  \/ CardRemoved

VoiceNext ==
  \/ Continues
  \/ ~Waiting /\ Events

VoiceSpec == VoiceInit /\ [][VoiceNext]_voiceVars

-----------------------------------------------------------------------------
(* Properties.                                                             *)

(* Read card after card, what was dictated stands in the order of speech,   *)
(* and no utterance stands there twice, however responses, transcripts,     *)
(* tool calls and appends cross and whatever earlier sessions still do; and *)
(* what was said outside a thought is on no card, nor is anything on a card *)
(* before the one it was said for (drainReadyTurns, queueThoughtAppend).    *)
(* Set apart, save that they are not written twice either, are the turns    *)
(* that cancelThoughtCapture dropped when a collaborator removed the card:  *)
(* a transcript that comes later makes such a turn again, for the capture   *)
(* of that moment.                                                          *)
DictationKeepsOrder ==
  \A c, d \in 1..Len(cards) : \A n \in 1..Len(cards[c]), m \in 1..Len(cards[d]) :
    LET i == cards[c][n]
        j == cards[d][m]
    IN  /\ i = j => c = d /\ n = m
        /\ i \notin dropped => meant[i] # Nothing /\ meant[i] <= c
        /\ i < j /\ i \notin dropped /\ j \notin dropped => c < d \/ (c = d /\ n < m)

(* Each utterance is written on the card it was said for, the one that was  *)
(* selected for the thought when it began (queueThoughtAppend).             *)
WrittenWhereSaid ==
  \A c \in 1..Len(cards) : \A n \in 1..Len(cards[c]) : meant[cards[c][n]] = c

\* A response to i is bound to it, awaits its tool call, or will come: those
\* before i in pending and the follow-ups take no more than the service owes.
ResponseComes(i) ==
  \/ response # Nothing /\ bound = i
  \/ \E s \in settling : s.utterance = i
  \/ \E n \in 1..Len(pending) : pending[n] = i /\ n + followups <= Len(unanswered) + asked

\* The turn that holds back the others has its response or transcript to come.
Awaited(i) ==
  IF buffer.turns[i].outcome = "none" THEN ResponseComes(i) ELSE i \in transcribing

(* Dictation goes on: in a session the first turn, which holds back all     *)
(* others, waits for something that comes (drainReadyTurns,                 *)
(* bindResponseToInputId).                                                  *)
DictationGoesOn ==
  status = "live" /\ buffer.order # << >> => Awaited(Head(buffer.order))

(* It does so but for three kinds of turns, which hold back all dictation   *)
(* of the session: one whose transcript has no word, one that had left and  *)
(* is made again by a tool call of a follow-up response, and one that an    *)
(* end of the session or a removed card had forgotten and that is made      *)
(* again by a response that settles afterwards.                             *)
OnlyRemadeTurnsBlock ==
  status = "live" /\ buffer.order # << >> =>
    LET i == Head(buffer.order)
    IN  Awaited(i) \/ i \in silent \union buffer.ignored \/ i <= forgotten
=============================================================================
