--------------------------- MODULE PacketDelivery ---------------------------
(***************************************************************************)
(* Meeting packets of one standard room: the host prepares a packet, edits *)
(* and approves it, stages a send and authorises it, and a server function *)
(* (lib/packets/server-service.ts, executeSend) submits the approved       *)
(* snapshot to the mail provider and records what came of it.  The         *)
(* provider later reports on the mail through signed webhook events.       *)
(*                                                                         *)
(* Every database function locks the room row (assert_packet_host), so     *)
(* each is one step here; executeSend is several of them with the          *)
(* provider's call between, and any step may lose its answer or be the     *)
(* last before the server function dies.                                   *)
(*                                                                         *)
(* A draft stands for the title and the recipients of a packet, the parts  *)
(* the host may edit; its canvas content is fixed when it is prepared.     *)
(***************************************************************************)
EXTENDS Integers, FiniteSets

CONSTANTS
  Packets,       \* packets that may be prepared; each is one packet version
  Drafts,        \* the title and recipients a draft may hold
  Addressed,     \* the drafts that name at least one recipient
  Unaddressed,   \* the draft a packet starts with: no recipients
  Requests,      \* send requests; a request's key is also its message id
  Executors,     \* server functions that may run executeSend at once
  Modes,         \* delivery decisions the deployment may take
  Quota,         \* admissions the rate windows leave room for
  MaxEvents,     \* events the provider reports of one mail
  FickleProvider \* may a retry be refused after the mail was accepted?

ASSUME DraftsAssumption ==
  Addressed \subseteq Drafts /\ Unaddressed \in Drafts \ Addressed
ASSUME ModesAssumption == Modes \subseteq {"preview", "resend"}
ASSUME RowsAssumption == Packets # {} /\ Requests # {}
ASSUME BoundsAssumption == Quota \in Nat /\ MaxEvents \in Nat
ASSUME FickleAssumption == FickleProvider \in BOOLEAN

VARIABLES
  packets,   \* meeting_packets
  requests,  \* packet_send_requests
  shares,    \* outbound_shares, one per authorised request
  admitted,  \* packet_resend_admissions
  recent,    \* the admissions the rate windows still count
  runs,      \* the executions of executeSend
  accepted,  \* mails the provider took, by idempotency key
  refused,   \* keys whose submission the provider refused
  transit,   \* submissions whose caller has stopped waiting
  events     \* events the provider has to report, and how far they got

store == <<packets, requests, shares, admitted, recent>>
provider == <<accepted, refused, transit>>
vars == <<packets, requests, shares, admitted, recent, runs,
          accepted, refused, transit, events>>

Authorized == {"sending", "reconciling", "submitted", "failed", "preview_only"}
Finished == {"cancelled", "failed", "preview_only", "expired"}
RequestStatus ==
  Authorized \cup Finished \cup {"none", "awaiting_human_approval"}

Adverse == {"bounced", "complained"}
MailKinds == {"submitted", "delivered"} \cup Adverse
ShareStatus ==
  MailKinds \cup {"none", "pending", "reconciling", "failed", "preview_only"}

Errors == {"none", "expired", "changed", "stale", "ambiguous", "recording",
           "rejected"}
Outcomes == {"submitted", "reconciling", "failed"}
Reports ==
  Outcomes \cup {"none", "refused", "unavailable", "preview_only", "unrecorded"}
Phases == {"idle", "reserving", "authorizing", "posting", "completing",
           "recording", "recovering"}

NoRequest == [status |-> "none", packet |-> CHOOSE p \in Packets : TRUE,
              draft |-> Unaddressed, lapsed |-> FALSE, error |-> "none"]
NoShare == [provider |-> "none", status |-> "none", known |-> FALSE, last |-> 0]
NoRun(r) == [phase |-> "idle", req |-> r, mode |-> "preview", took |-> FALSE,
             outcome |-> "failed", report |-> "none"]

Packet == [status : {"none", "draft", "approved"}, draft : Drafts]
Request == [status : RequestStatus, packet : Packets, draft : Drafts,
            lapsed : BOOLEAN, error : Errors]
Share == [provider : {"none", "preview", "resend"}, status : ShareStatus,
          known : BOOLEAN, last : 0 .. MaxEvents]
Run == [phase : Phases, req : Requests, mode : {"preview", "resend"},
        took : BOOLEAN, outcome : Outcomes, report : Reports]
Event == [req : Requests, at : 1 .. MaxEvents, kind : MailKinds,
          seen : {"new", "unmatched", "late", "settled", "ignored"}]

\* Every variable holds rows of its table.
TypeOK ==
  /\ packets \in [Packets -> Packet]
  /\ requests \in [Requests -> Request]
  /\ shares \in [Requests -> Share]
  /\ admitted \subseteq Requests /\ recent \subseteq admitted
  /\ runs \in [Executors -> Run]
  /\ accepted \subseteq Requests /\ refused \subseteq Requests
  /\ transit \subseteq Requests
  /\ events \subseteq Event

Init ==
  /\ packets = [p \in Packets |-> [status |-> "none", draft |-> Unaddressed]]
  /\ requests = [r \in Requests |-> NoRequest]
  /\ shares = [r \in Requests |-> NoShare]
  /\ admitted = {} /\ recent = {}
  /\ runs = [e \in Executors |-> NoRun(CHOOSE r \in Requests : TRUE)]
  /\ accepted = {} /\ refused = {} /\ transit = {} /\ events = {}

-----------------------------------------------------------------------------
(* The packet and its approval.                                            *)

Put(r, status, error) ==
  [requests EXCEPT ![r].status = status, ![r].error = error]

\* prepare_meeting_packet_draft: the objects of the canvas become the
\* content of a new packet version with no recipients.
Prepare(p) ==
  /\ packets[p].status = "none"
  /\ packets' = [packets EXCEPT ![p] = [status |-> "draft",
                                        draft |-> Unaddressed]]
  /\ UNCHANGED <<requests, shares, admitted, recent, runs, provider, events>>

\* update_meeting_packet_draft: an edit revokes the approval and expires the
\* sends that wait for the host.
UpdateDraft(p, d) ==
  /\ packets[p].status # "none" /\ packets[p].draft # d
  /\ packets' = [packets EXCEPT ![p] = [status |-> "draft", draft |-> d]]
  /\ requests' = [r \in Requests |->
       IF /\ requests[r].packet = p
          /\ requests[r].status = "awaiting_human_approval"
       THEN [requests[r] EXCEPT !.status = "expired", !.error = "changed"]
       ELSE requests[r]]
  /\ UNCHANGED <<shares, admitted, recent, runs, provider, events>>

\* approve_meeting_packet: the draft becomes the approved snapshot.
Approve(p) ==
  /\ packets[p].status = "draft" /\ packets[p].draft \in Addressed
  /\ packets' = [packets EXCEPT ![p].status = "approved"]
  /\ UNCHANGED <<requests, shares, admitted, recent, runs, provider, events>>

\* The requests that carry what the packet's approved snapshot holds now.
SameSnapshot(p) ==
  {r \in Requests : /\ requests[r].status # "none"
                    /\ requests[r].packet = p
                    /\ requests[r].draft = packets[p].draft}

\* Faulty variant: only a submitted send keeps the snapshot.
StageUnlessSubmitted(p, r) ==
  /\ packets[p].status = "approved" /\ requests[r].status = "none"
  /\ \A q \in SameSnapshot(p) :
       requests[q].status \notin {"submitted", "awaiting_human_approval"}
  /\ requests' = [requests EXCEPT ![r] =
       [status |-> "awaiting_human_approval", packet |-> p,
        draft |-> packets[p].draft, lapsed |-> FALSE, error |-> "none"]]
  /\ UNCHANGED <<packets, shares, admitted, recent, runs, provider, events>>

\* stage_meeting_packet_send: a new request for the approved snapshot, unless
\* it was submitted, is on its way, or waits already; a request that waits is
\* returned as it is, also when its fifteen minutes are over.
StageSend(p, r) ==
  /\ packets[p].status = "approved" /\ requests[r].status = "none"
  /\ \A q \in SameSnapshot(p) : requests[q].status \in Finished
  /\ requests' = [requests EXCEPT ![r] =
       [status |-> "awaiting_human_approval", packet |-> p,
        draft |-> packets[p].draft, lapsed |-> FALSE, error |-> "none"]]
  /\ UNCHANGED <<packets, shares, admitted, recent, runs, provider, events>>

\* cancel_meeting_packet_send
CancelSend(r) ==
  /\ requests[r].status = "awaiting_human_approval"
  /\ requests' = Put(r, "cancelled", "none")
  /\ UNCHANGED <<packets, shares, admitted, recent, runs, provider, events>>

\* Fifteen minutes have passed since the request was staged.
Lapse(r) ==
  /\ requests[r].status = "awaiting_human_approval" /\ ~requests[r].lapsed
  /\ requests' = [requests EXCEPT ![r].lapsed = TRUE]
  /\ UNCHANGED <<packets, shares, admitted, recent, runs, provider, events>>

\* The rate windows move on.
WindowPasses ==
  /\ recent # {} /\ recent' = {}
  /\ UNCHANGED <<packets, requests, shares, admitted, runs, provider, events>>

-----------------------------------------------------------------------------
(* executeSend, one database call or provider call at a time.              *)

At(e, phase) == runs[e].phase = phase
Req(e) == runs[e].req

Go(e, phase) == runs' = [runs EXCEPT ![e].phase = phase]
Answer(e, report) ==
  runs' = [runs EXCEPT ![e].phase = "idle", ![e].report = report]

\* The packet is approved and still holds what the request was staged with.
StillApproved(r) ==
  /\ packets[requests[r].packet].status = "approved"
  /\ packets[requests[r].packet].draft = requests[r].draft

\* loadStagedSend and decideDelivery: any request but a cancelled one may be
\* executed, again too; the deployment decides between mail and preview.
BeginExecute(e, r, mode) ==
  /\ At(e, "idle") /\ requests[r].status \notin {"none", "cancelled"}
  /\ runs' = [runs EXCEPT ![e] =
       [phase |-> IF mode = "resend" THEN "reserving" ELSE "authorizing",
        req |-> r, mode |-> mode, took |-> FALSE, outcome |-> "failed",
        report |-> "none"]]
  /\ UNCHANGED <<store, provider, events>>

\* reserve_packet_resend_admission, for a request admitted before.
ReserveAgain(e) ==
  /\ At(e, "reserving") /\ Req(e) \in admitted
  /\ Go(e, "authorizing")
  /\ UNCHANGED <<store, provider, events>>

Reservable(r) ==
  /\ requests[r].status = "awaiting_human_approval" /\ ~requests[r].lapsed
  /\ StillApproved(r)

\* reserve_packet_resend_admission, for a new request within the rate limits.
ReserveNew(e) ==
  /\ At(e, "reserving") /\ Req(e) \notin admitted
  /\ Reservable(Req(e)) /\ Cardinality(recent) < Quota
  /\ admitted' = admitted \cup {Req(e)} /\ recent' = recent \cup {Req(e)}
  /\ \/ Go(e, "authorizing")
     \/ Answer(e, "unavailable")  \* the answer of the call is lost
  /\ UNCHANGED <<packets, requests, shares, provider, events>>

\* reserve_packet_resend_admission refuses: the request does not wait, has
\* lapsed or is stale, or else the rate windows are full.
ReserveRefused(e) ==
  /\ At(e, "reserving") /\ Req(e) \notin admitted
  /\ \/ ~Reservable(Req(e)) /\ Answer(e, "refused")
     \/ /\ Reservable(Req(e)) /\ Cardinality(recent) >= Quota
        /\ Answer(e, "unavailable")
  /\ UNCHANGED <<store, provider, events>>

\* Faulty variant: the approval is not compared again.
AuthorizeUnchecked(e) ==
  LET r == Req(e)
      resend == runs[e].mode = "resend"
  IN /\ At(e, "authorizing") /\ requests[r].status = "awaiting_human_approval"
     /\ requests' = Put(r, IF resend THEN "sending" ELSE "preview_only", "none")
     /\ shares' = [shares EXCEPT ![r].provider = runs[e].mode,
          ![r].status = IF resend THEN "pending" ELSE "preview_only"]
     /\ \/ IF resend THEN Go(e, "posting") ELSE Answer(e, "preview_only")
        \/ Answer(e, "unavailable")
     /\ UNCHANGED <<packets, admitted, recent, provider, events>>

\* authorize_meeting_packet_send, for a request that waits and still holds.
AuthorizeNew(e) ==
  LET r == Req(e)
      resend == runs[e].mode = "resend"
  IN /\ At(e, "authorizing") /\ Reservable(r)
     /\ requests' = Put(r, IF resend THEN "sending" ELSE "preview_only", "none")
     /\ shares' = [shares EXCEPT ![r].provider = runs[e].mode,
          ![r].status = IF resend THEN "pending" ELSE "preview_only"]
     /\ \/ IF resend THEN Go(e, "posting") ELSE Answer(e, "preview_only")
        \/ Answer(e, "unavailable")  \* the answer of the call is lost
     /\ UNCHANGED <<packets, admitted, recent, provider, events>>

\* authorize_meeting_packet_send expires a request that has lapsed or that no
\* longer holds what is approved.
AuthorizeExpires(e) ==
  LET r == Req(e)
  IN /\ At(e, "authorizing") /\ requests[r].status = "awaiting_human_approval"
     /\ ~Reservable(r)
     /\ requests' = Put(r, "expired",
                        IF requests[r].lapsed THEN "expired" ELSE "stale")
     /\ Answer(e, "refused")
     /\ UNCHANGED <<packets, shares, admitted, recent, provider, events>>

\* Faulty variant: the delivery mode of the first authorisation is ignored.
AuthorizeAnyMode(e) ==
  LET r == Req(e)
  IN /\ At(e, "authorizing") /\ requests[r].status \in Authorized
     /\ IF runs[e].mode = "preview" THEN Answer(e, "preview_only")
        ELSE IF requests[r].status \in {"submitted", "failed"}
        THEN Answer(e, requests[r].status)
        ELSE Go(e, "posting")
     /\ UNCHANGED <<store, provider, events>>

\* authorize_meeting_packet_send, for a request authorised before: the same
\* delivery mode answers with its state and goes on where it was left; another
\* mode is a conflict.
AuthorizeAgain(e) ==
  LET r == Req(e)
  IN /\ At(e, "authorizing") /\ requests[r].status \in Authorized
     /\ \/ /\ shares[r].provider = runs[e].mode /\ runs[e].mode = "resend"
           /\ IF requests[r].status \in {"submitted", "failed"}
              THEN Answer(e, requests[r].status)
              ELSE Go(e, "posting")
        \/ /\ shares[r].provider = runs[e].mode /\ runs[e].mode = "preview"
           /\ Answer(e, "preview_only")
        \/ shares[r].provider # runs[e].mode /\ Answer(e, "unavailable")
     /\ UNCHANGED <<store, provider, events>>

\* authorize_meeting_packet_send refuses a request that is over.
AuthorizeRefused(e) ==
  /\ At(e, "authorizing") /\ requests[Req(e)].status \in {"cancelled", "expired"}
  /\ Answer(e, "refused")
  /\ UNCHANGED <<store, provider, events>>

-----------------------------------------------------------------------------
(* The mail provider, external: it takes one mail per idempotency key.     *)

\* A key the provider would take now.
Acceptable(r) == r \in accepted \/ FickleProvider \/ r \notin refused

\* The provider takes the mail of an execution that waits for it.
ProviderAccepts(e) ==
  /\ At(e, "posting") /\ ~runs[e].took /\ Acceptable(Req(e))
  /\ accepted' = accepted \cup {Req(e)}
  /\ runs' = [runs EXCEPT ![e].took = TRUE]
  /\ UNCHANGED <<store, refused, transit, events>>

\* The provider takes a mail whose caller no longer waits.
ProviderAcceptsLate(r) ==
  /\ r \in transit /\ Acceptable(r)
  /\ accepted' = accepted \cup {r} /\ transit' = transit \ {r}
  /\ UNCHANGED <<store, runs, refused, events>>

\* The submission is lost on its way.
LosePost(r) ==
  /\ r \in transit /\ transit' = transit \ {r}
  /\ UNCHANGED <<store, runs, accepted, refused, events>>

\* submitResendPacketEmail, 2xx: the message id has come back.
PostAccepted(e) ==
  /\ At(e, "posting") /\ runs[e].took
  /\ runs' = [runs EXCEPT ![e].phase = "completing", ![e].outcome = "submitted"]
  /\ UNCHANGED <<store, provider, events>>

\* submitResendPacketEmail, 4xx other than 409 and 429: the provider refuses.
PostRejected(e) ==
  /\ At(e, "posting") /\ ~runs[e].took
  /\ FickleProvider \/ Req(e) \notin accepted
  /\ refused' = refused \cup {Req(e)}
  /\ runs' = [runs EXCEPT ![e].phase = "completing", ![e].outcome = "failed"]
  /\ UNCHANGED <<store, accepted, transit, events>>

\* Faulty variant: an answer that did not come counts as a refusal.
PostFailsOnSilence(e) ==
  /\ At(e, "posting")
  /\ transit' = IF runs[e].took THEN transit ELSE transit \cup {Req(e)}
  /\ runs' = [runs EXCEPT ![e].phase = "completing", ![e].outcome = "failed"]
  /\ UNCHANGED <<store, accepted, refused, events>>

\* submitResendPacketEmail, no usable answer: the caller left, the network
\* failed, the provider answered 409, 429, 5xx or not what was expected.  The
\* submission may have been taken, or may still be.
PostAmbiguous(e) ==
  /\ At(e, "posting")
  /\ transit' = IF runs[e].took THEN transit ELSE transit \cup {Req(e)}
  /\ runs' = [runs EXCEPT ![e].phase = "completing", ![e].outcome = "reconciling"]
  /\ UNCHANGED <<store, accepted, refused, events>>

-----------------------------------------------------------------------------
(* Recording the outcome.                                                  *)

ErrorOf(o) == CASE o = "submitted" -> "none" [] o = "failed" -> "rejected"
                [] o = "reconciling" -> "ambiguous"

\* complete_meeting_packet_send answers a call that repeats what is recorded.
Repeats(r, o, known, error) ==
  /\ requests[r].status = o /\ shares[r].status = o
  /\ shares[r].known = known /\ requests[r].error = error

\* complete_meeting_packet_send records an outcome of a send that is on its
\* way, and never drops a message id it has.
Completable(r, o, known, error) ==
  /\ requests[r].status \in {"sending", "reconciling"}
  /\ ~(requests[r].status = "reconciling" /\ o = "reconciling")
  /\ shares[r].status \in {"pending", "reconciling"}
  /\ shares[r].known => known

Complete(r, o, known, error) ==
  IF Completable(r, o, known, error)
  THEN /\ requests' = Put(r, o, error)
       /\ shares' = [shares EXCEPT ![r].status = o,
                                   ![r].known = known \/ shares[r].known]
  ELSE UNCHANGED <<requests, shares>>

Recorded(r, o, known, error) ==
  Completable(r, o, known, error) \/ Repeats(r, o, known, error)

\* completeSendAttempt after the provider call.  A failure to record an
\* accepted mail leads to a second attempt, of any other to the host.
CompleteSend(e) ==
  LET r == Req(e)
      o == runs[e].outcome
      known == o = "submitted"
  IN /\ At(e, "completing")
     /\ \/ /\ Recorded(r, o, known, ErrorOf(o)) /\ Answer(e, o)
           /\ Complete(r, o, known, ErrorOf(o))
        \/ \* refused as a conflict, lost, or its answer is lost
           /\ Complete(r, o, known, ErrorOf(o)) \/ UNCHANGED <<requests, shares>>
           /\ IF o = "submitted" THEN Go(e, "recording")
              ELSE Answer(e, "unrecorded")
     /\ UNCHANGED <<packets, admitted, recent, provider, events>>

\* The second attempt: the accepted mail is recorded as still in doubt, with
\* its message id.
RecordInDoubt(e) ==
  LET r == Req(e)
  IN /\ At(e, "recording")
     /\ \/ /\ Recorded(r, "reconciling", TRUE, "recording")
           /\ Answer(e, "reconciling")
           /\ Complete(r, "reconciling", TRUE, "recording")
        \/ /\ \/ Complete(r, "reconciling", TRUE, "recording")
              \/ UNCHANGED <<requests, shares>>
           /\ Go(e, "recovering")
     /\ UNCHANGED <<packets, admitted, recent, provider, events>>

\* The last resort: ask authorize_meeting_packet_send what is on record, and
\* believe it only when it names this very message.
Recover(e) ==
  LET r == Req(e)
  IN /\ At(e, "recovering")
     /\ \/ /\ requests[r].status \in {"submitted", "reconciling"}
           /\ shares[r].known /\ Answer(e, requests[r].status)
        \/ Answer(e, "unrecorded")
     /\ UNCHANGED <<store, provider, events>>

\* A database call that does nothing but fail.
CallFails(e) ==
  /\ At(e, "reserving") \/ At(e, "authorizing")
  /\ Answer(e, "unavailable")
  /\ UNCHANGED <<store, provider, events>>

\* The server function dies.
Crash(e) ==
  /\ ~At(e, "idle")
  /\ transit' = IF At(e, "posting") /\ ~runs[e].took THEN transit \cup {Req(e)}
                ELSE transit
  /\ Answer(e, "none")
  /\ UNCHANGED <<store, accepted, refused, events>>

-----------------------------------------------------------------------------
(* Delivery events.                                                        *)

EventsOf(r) == {ev \in events : ev.req = r}
KindsOf(r) == {ev.kind : ev \in EventsOf(r)}

\* External: what the provider reports of a mail, in the order it happens.
Reportable(r, kind) ==
  CASE kind = "submitted"  -> KindsOf(r) = {}
    [] kind = "delivered"  -> KindsOf(r) = {"submitted"}
    [] kind = "bounced"    -> KindsOf(r) = {"submitted"}
    [] kind = "complained" -> KindsOf(r) = {"submitted", "delivered"}

ProviderReports(r, kind) ==
  /\ r \in accepted /\ Cardinality(EventsOf(r)) < MaxEvents
  /\ Reportable(r, kind)
  /\ events' = events \cup {[req |-> r, at |-> Cardinality(EventsOf(r)) + 1,
                             kind |-> kind, seen |-> "new"]}
  /\ UNCHANGED <<store, runs, provider>>

Mark(ev, seen) == events' = (events \ {ev}) \cup {[ev EXCEPT !.seen = seen]}

\* The event's mail is known under its message id.
Matched(ev) == shares[ev.req].known

\* Fifteen minutes after an unmatched event came first.
EventGrowsOld(ev) ==
  /\ ev.seen = "unmatched" /\ Mark(ev, "late")
  /\ UNCHANGED <<store, runs, provider>>

\* Faulty variant: an event that came too early counts as handled.
SetEarlyAside(ev) ==
  /\ ~Matched(ev) /\ ev.seen \in {"new", "late"}
  /\ Mark(ev, "settled")
  /\ UNCHANGED <<store, runs, provider>>

\* apply_resend_delivery_event finds no mail: the event stays replayable, and
\* the route asks for it again, until it is too old.
EventUnmatched(ev) ==
  /\ ~Matched(ev) /\ ev.seen \in {"new", "late"}
  /\ Mark(ev, IF ev.seen = "new" THEN "unmatched" ELSE "ignored")
  /\ UNCHANGED <<store, runs, provider>>

\* Faulty variant: arrival order decides, and only an adverse state resists.
StaleByStateOnly(ev) ==
  shares[ev.req].status \in Adverse /\ ev.kind \notin Adverse

\* The event tells nothing newer than the share holds.
Stale(ev) ==
  LET s == shares[ev.req]
  IN \/ ev.at <= s.last
     \/ s.status \in Adverse \cup {"failed"} /\ ev.kind \notin Adverse
     \/ /\ ev.kind = "submitted"
        /\ s.status \notin {"pending", "reconciling", "submitted"}

\* apply_resend_delivery_event on an event it has not settled.
EventApplies(ev) ==
  LET r == ev.req
  IN /\ Matched(ev) /\ ev.seen \in {"new", "unmatched", "late"}
     /\ Mark(ev, "settled")
     /\ \/ Stale(ev) /\ UNCHANGED <<requests, shares>>
        \/ /\ ~Stale(ev)
           /\ shares' = [shares EXCEPT ![r].status = ev.kind, ![r].last = ev.at]
           /\ IF /\ requests[r].status \in {"sending", "reconciling"}
                 /\ shares[r].status # ev.kind
              THEN requests' = Put(r, "submitted", "none")
              ELSE UNCHANGED requests
     /\ UNCHANGED <<packets, admitted, recent, runs, provider>>

-----------------------------------------------------------------------------

Host ==
  \/ \E p \in Packets : Prepare(p) \/ Approve(p)
  \/ \E p \in Packets, d \in Drafts : UpdateDraft(p, d)
  \/ \E p \in Packets, r \in Requests : StageSend(p, r)
  \/ \E r \in Requests : CancelSend(r)

Execution(e) ==
  \/ ReserveAgain(e) \/ ReserveNew(e) \/ ReserveRefused(e)
  \/ AuthorizeNew(e) \/ AuthorizeExpires(e) \/ AuthorizeAgain(e)
  \/ AuthorizeRefused(e)
  \/ PostAccepted(e) \/ PostRejected(e) \/ PostAmbiguous(e)
  \/ CompleteSend(e) \/ RecordInDoubt(e) \/ Recover(e)
  \/ CallFails(e) \/ Crash(e)

Webhook(ev) == EventUnmatched(ev) \/ EventApplies(ev)

Time ==
  \/ \E r \in Requests : Lapse(r)
  \/ WindowPasses
  \/ \E ev \in events : EventGrowsOld(ev)

Provider ==
  \/ \E e \in Executors : ProviderAccepts(e)
  \/ \E r \in Requests : ProviderAcceptsLate(r) \/ LosePost(r)
  \/ \E r \in Requests, kind \in MailKinds : ProviderReports(r, kind)

Next ==
  \/ Host
  \/ \E e \in Executors, r \in Requests, mode \in Modes : BeginExecute(e, r, mode)
  \/ \E e \in Executors : Execution(e)
  \/ \E ev \in events : Webhook(ev)
  \/ Time
  \/ Provider

Spec == Init /\ [][Next]_vars

\* The provider repeats an event until the route answers with success.
Fairness == \A r \in Requests, kind \in MailKinds :
              WF_vars(\E ev \in events : ev.req = r /\ ev.kind = kind /\ Webhook(ev))

FairSpec == Spec /\ Fairness

-----------------------------------------------------------------------------
(* Safety.                                                                 *)

\* Whatever is retried, restaged or lost, the provider takes at most one mail
\* for one approved snapshot (stage_meeting_packet_send's checks of the
\* requests that carry it).
OneEmailPerApproval ==
  \A a, b \in accepted :
    /\ requests[a].packet = requests[b].packet
    /\ requests[a].draft = requests[b].draft
    => a = b

\* A send recorded as cancelled, expired, previewed or failed, which lets the
\* snapshot be staged again, is one whose mail the provider did not take.
FinishedIsUnsent == \A r \in accepted : requests[r].status \notin Finished

\* A send is recorded as submitted, or under a message id, only when the
\* provider took its mail.
SubmittedIsTrue ==
  \A r \in Requests :
    requests[r].status = "submitted" \/ shares[r].known => r \in accepted

\* What is on record of a mail is so, whatever answers and functions were lost
\* (complete_meeting_packet_send, executeSend).
RecordIsTrue == FinishedIsUnsent /\ SubmittedIsTrue

\* What executeSend tells the host of a mail is so, whichever call it had to
\* infer it from.
ReportsAreHonest ==
  \A e \in Executors :
    LET told == runs[e].report
    IN /\ told = "submitted" => Req(e) \in accepted
       /\ told \in {"failed", "preview_only"} => Req(e) \notin accepted

\* A send that waits for the host carries exactly what is approved now: an
\* edit takes the approval and the staged sends with it.
StagedIsApproved ==
  \A r \in Requests :
    requests[r].status = "awaiting_human_approval" => StillApproved(r)

\* The host took the send back before it was authorised, or let it lapse.
Withdrawn(r) ==
  \/ requests[r].status \in {"cancelled", "expired"}
  \/ requests[r].status = "awaiting_human_approval" /\ requests[r].lapsed

\* What is withdrawn is never mailed: not by a server function that loaded or
\* admitted the send before it was cancelled, its packet edited or its time over,
\* and authorises and submits it afterwards, nor by another one that takes it up
\* again (loadStagedSend, reserve_packet_resend_admission,
\* authorize_meeting_packet_send and the provider's call are steps apart).
WithdrawnStaysUnsent ==
  \A r \in Requests : [](Withdrawn(r) => [](r \notin accepted))

\* Once all the provider has reported of a mail is settled, its share shows
\* the newest of it, in whatever order and however late the events came.
NewestEventShows ==
  \A r \in Requests :
    LET evs == EventsOf(r)
    IN evs # {} /\ (\A ev \in evs : ev.seen = "settled") =>
         \E ev \in evs : /\ \A other \in evs : other.at <= ev.at
                         /\ shares[r].status = ev.kind

\* A delivery that the provider reported is never taken back by a late event
\* or by an executor that records its own outcome, and a bounce or complaint
\* never turns into anything better.
DeliveryNeverRegresses ==
  [][\A r \in Requests :
       LET was == shares[r].status
           is == shares'[r].status
       IN /\ was = "delivered" => is \in {"delivered"} \cup Adverse
          /\ was \in Adverse => is \in Adverse]_vars

\* The request follows its share: a mail the provider took or reported on is
\* no longer one to submit or to reconcile.
RequestFollowsShare ==
  \A r \in Requests :
    shares[r].status \in MailKinds <=> requests[r].status = "submitted"

\* What the host is told is no longer available is not waiting any more, so
\* that the snapshot can be staged afresh.
RefusedIsOver ==
  \A e \in Executors :
    runs[e].report = "refused" =>
      requests[Req(e)].status # "awaiting_human_approval"

-----------------------------------------------------------------------------
(* Liveness.                                                               *)

\* A delivery reported of a mail whose message id is on record shows at last,
\* also when the report came before the id did, unless it waited too long.
DeliveryIsShown ==
  \A r \in Requests :
    /\ shares[r].known
    /\ \E ev \in EventsOf(r) : ev.kind = "delivered" /\ ev.seen # "ignored"
    ~> shares[r].status \in {"delivered"} \cup Adverse
=============================================================================
