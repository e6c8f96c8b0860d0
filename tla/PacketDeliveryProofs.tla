------------------------ MODULE PacketDeliveryProofs ------------------------
(***************************************************************************)
(* What holds of PacketDelivery for any number of packets, drafts, send    *)
(* requests, server functions and provider events.                         *)
(*                                                                         *)
(* The invariant has four parts: the tables agree with each other, the     *)
(* runs with the tables, the provider with the tables, and the events are  *)
(* events.  A step either leaves the tables of packets, requests and       *)
(* shares alone (StoreKept) or changes one row of them (RowSound); what it *)
(* does to a run is one of two forms, Go and Answer, with a lemma each.    *)
(***************************************************************************)
EXTENDS PacketDelivery, FiniteSetTheorems, TLAPS

\* A request that was authorised to be mailed stays one of these for good.
Mailed == {"sending", "reconciling", "submitted", "failed"}
Sent == {r \in Requests : requests[r].status \in Mailed}
Shown == {r \in Requests : requests[r].status = "preview_only"}
Unauthorized == {"none", "awaiting_human_approval", "cancelled", "expired"}

\* What the status of a request says of its share.
Agree(q, s) ==
  /\ q \in Unauthorized => s.status = "none" /\ ~s.known
  /\ q = "preview_only" =>
       s.provider = "preview" /\ s.status = "preview_only" /\ ~s.known
  /\ q \in Mailed => s.provider = "resend"
  /\ q = "sending" => s.status = "pending"
  /\ q = "reconciling" => s.status = "reconciling"
  /\ q = "submitted" => s.status \in MailKinds /\ s.known
  /\ q = "failed" => s.status = "failed" /\ ~s.known

\* A request that is neither over nor unused is the only one of its snapshot.
OneActive ==
  \A a, b \in Requests :
    /\ requests[a].status \notin Finished \cup {"none"}
    /\ requests[b].status \notin Finished \cup {"none"}
    /\ requests[a].packet = requests[b].packet
    /\ requests[a].draft = requests[b].draft
    => a = b

RecordSound ==
  \A r \in Requests :
    /\ Agree(requests[r].status, shares[r])
    /\ shares[r].known => r \in accepted
    /\ requests[r].status = "failed" => r \in refused

StoreTyped ==
  /\ packets \in [Packets -> Packet]
  /\ requests \in [Requests -> Request]
  /\ shares \in [Requests -> Share]
  /\ admitted \subseteq Requests /\ recent \subseteq admitted

StoreSound == StoreTyped /\ RecordSound /\ OneActive /\ StagedIsApproved

\* What the progress of a run and its report say of its request.
RunSound(x, sent, taken, denied, shown) ==
  /\ x.phase \in {"posting", "completing", "recording", "recovering"} => x.req \in sent
  /\ x.took => x.req \in taken
  /\ x.phase \in {"recording", "recovering"} => x.req \in taken
  /\ x.phase = "completing" /\ x.outcome = "submitted" => x.req \in taken
  /\ x.phase = "completing" /\ x.outcome = "failed" => x.req \in denied
  /\ x.report = "submitted" => x.req \in taken
  /\ x.report = "failed" => x.req \in denied
  /\ x.report = "preview_only" => x.req \in shown

RunsSound ==
  /\ runs \in [Executors -> Run]
  /\ \A e \in Executors : RunSound(runs[e], Sent, accepted, refused, Shown)

\* The provider only ever sees mails that were authorised; a stable one does
\* not take what it refused.
MailSound ==
  /\ accepted \subseteq Sent /\ refused \subseteq Sent /\ transit \subseteq Sent
  /\ ~FickleProvider => accepted \cap refused = {}

EventsSound == events \subseteq Event /\ IsFiniteSet(events)

PacketInv == StoreSound /\ RunsSound /\ MailSound /\ EventsSound

-----------------------------------------------------------------------------
(* Steps of a run.                                                         *)

Grows ==
  /\ Sent \subseteq Sent' /\ Shown \subseteq Shown'
  /\ accepted \subseteq accepted' /\ refused \subseteq refused'

LEMMA RunsKept ==
  ASSUME RunsSound, Grows, UNCHANGED runs
  PROVE  RunsSound'
BY DEF RunsSound, Grows, RunSound

LEMMA RunReplaced ==
  ASSUME RunsSound, Grows, NEW e \in Executors, NEW x \in Run,
         runs' = [runs EXCEPT ![e] = x],
         RunSound(x, Sent', accepted', refused', Shown')
  PROVE  RunsSound'
<1>1. runs' \in [Executors -> Run]
  BY DEF RunsSound
<1>2. ASSUME NEW d \in Executors
      PROVE  RunSound(runs'[d], Sent', accepted', refused', Shown')
  <2>1. CASE d = e
    BY <2>1 DEF RunsSound
  <2>2. CASE d # e
    <3>1. runs'[d] = runs[d]
      BY <2>2 DEF RunsSound
    <3>2. RunSound(runs[d], Sent, accepted, refused, Shown)
      BY DEF RunsSound
    <3> QED
      BY <3>1, <3>2 DEF Grows, RunSound
  <2> QED
    BY <2>1, <2>2
<1> QED
  BY <1>1, <1>2 DEF RunsSound

LEMMA GoSound ==
  ASSUME RunsSound, Grows, NEW e \in Executors,
         NEW phase \in {"authorizing", "posting", "recording", "recovering"},
         Go(e, phase),
         phase # "authorizing" => Req(e) \in Sent',
         phase \in {"recording", "recovering"} => Req(e) \in accepted'
  PROVE  RunsSound'
<1> DEFINE x == [runs[e] EXCEPT !.phase = phase]
<1>1. runs[e] \in Run /\ RunSound(runs[e], Sent, accepted, refused, Shown)
  BY DEF RunsSound
<1>2. x \in Run
  BY <1>1, Zenon DEF Run, Phases
<1>3. /\ x.phase = phase /\ x.req = runs[e].req /\ x.took = runs[e].took
      /\ x.report = runs[e].report
  BY <1>1 DEF Run
<1>4. runs' = [runs EXCEPT ![e] = x]
  BY DEF Go
<1> HIDE DEF x
<1>5. RunSound(x, Sent', accepted', refused', Shown')
  BY <1>1, <1>3 DEF RunSound, Grows, Req
<1> QED
  BY <1>2, <1>4, <1>5, RunReplaced

LEMMA AnswerSound ==
  ASSUME RunsSound, Grows, NEW e \in Executors, NEW report \in Reports,
         Answer(e, report),
         report = "submitted" => Req(e) \in accepted',
         report = "failed" => Req(e) \in refused',
         report = "preview_only" => Req(e) \in Shown'
  PROVE  RunsSound'
<1> DEFINE x == [runs[e] EXCEPT !.phase = "idle", !.report = report]
<1>1. runs[e] \in Run /\ RunSound(runs[e], Sent, accepted, refused, Shown)
  BY DEF RunsSound
<1>2. x \in Run
  BY <1>1, Zenon DEF Run, Phases
<1>3. /\ x.phase = "idle" /\ x.req = runs[e].req /\ x.took = runs[e].took
      /\ x.report = report
  BY <1>1 DEF Run
<1>4. runs' = [runs EXCEPT ![e] = x]
  BY DEF Answer
<1> HIDE DEF x
<1>5. RunSound(x, Sent', accepted', refused', Shown')
  BY <1>1, <1>3 DEF RunSound, Grows, Req
<1> QED
  BY <1>2, <1>4, <1>5, RunReplaced

-----------------------------------------------------------------------------
(* Steps of the tables.                                                    *)

\* The provider's marks may grow under tables that stay as they are.
LEMMA StoreKept ==
  ASSUME StoreSound, UNCHANGED <<packets, requests, shares>>,
         admitted' \subseteq Requests, recent' \subseteq admitted',
         accepted \subseteq accepted', refused \subseteq refused'
  PROVE  StoreSound' /\ Grows /\ Sent' = Sent
<1>1. StoreTyped'
  BY DEF StoreSound, StoreTyped
<1>2. RecordSound'
  BY DEF StoreSound, RecordSound
<1>3. OneActive' /\ StagedIsApproved'
  BY DEF StoreSound, OneActive, StagedIsApproved, StillApproved
<1>4. Grows /\ Sent' = Sent
  BY DEF Grows, Sent, Shown
<1> QED
  BY <1>1, <1>2, <1>3, <1>4 DEF StoreSound

LEMMA PutIs ==
  ASSUME StoreTyped, NEW r \in Requests, NEW s \in RequestStatus, NEW error \in Errors
  PROVE  /\ Put(r, s, error) \in [Requests -> Request]
         /\ Put(r, s, error)[r].status = s
         /\ \A q \in Requests :
              /\ Put(r, s, error)[q].packet = requests[q].packet
              /\ Put(r, s, error)[q].draft = requests[q].draft
              /\ q # r => Put(r, s, error)[q] = requests[q]
<1> DEFINE x == [requests[r] EXCEPT !.status = s, !.error = error]
<1>1. requests[r] \in Request
  BY DEF StoreTyped
<1>2. x \in Request
  BY <1>1, Zenon DEF Request
<1>3. x.status = s /\ x.packet = requests[r].packet /\ x.draft = requests[r].draft
  BY <1>1 DEF Request
<1>4. Put(r, s, error) = [requests EXCEPT ![r] = x]
  BY DEF Put
<1> HIDE DEF x
<1> QED
  BY <1>2, <1>3, <1>4 DEF StoreTyped

\* One request, and its share with it, moves on to another status.
LEMMA RowSound ==
  ASSUME StoreSound, NEW r \in Requests, NEW s \in RequestStatus, NEW error \in Errors,
         NEW y \in Share,
         requests' = Put(r, s, error), shares' = [shares EXCEPT ![r] = y],
         UNCHANGED <<packets, admitted, recent, accepted, refused>>,
         s # "awaiting_human_approval",
         s \notin Finished \cup {"none"} =>
           requests[r].status \notin Finished \cup {"none"},
         requests[r].status \in Mailed => s \in Mailed,
         requests[r].status # "preview_only",
         Agree(s, y), y.known => r \in accepted, s = "failed" => r \in refused
  PROVE  StoreSound' /\ Grows
<1> USE DEF StoreSound
<1>1. /\ requests' \in [Requests -> Request] /\ requests'[r].status = s
      /\ \A q \in Requests :
           /\ requests'[q].packet = requests[q].packet
           /\ requests'[q].draft = requests[q].draft
           /\ q # r => requests'[q] = requests[q]
  BY PutIs
<1>2. /\ shares' \in [Requests -> Share] /\ shares'[r] = y
      /\ \A q \in Requests : q # r => shares'[q] = shares[q]
  BY DEF StoreTyped
<1>3. StoreTyped'
  BY <1>1, <1>2 DEF StoreTyped
<1>4. RecordSound'
  <2> SUFFICES ASSUME NEW q \in Requests
               PROVE  /\ Agree(requests'[q].status, shares'[q])
                      /\ shares'[q].known => q \in accepted'
                      /\ requests'[q].status = "failed" => q \in refused'
    BY DEF RecordSound
  <2>1. CASE q = r
    BY <1>1, <1>2, <2>1
  <2>2. CASE q # r
    BY <1>1, <1>2, <2>2 DEF RecordSound
  <2> QED
    BY <2>1, <2>2
<1>5. OneActive'
  <2>1. \A q \in Requests : requests'[q].status \notin Finished \cup {"none"} =>
                              requests[q].status \notin Finished \cup {"none"}
    BY <1>1
  <2> QED
    BY <1>1, <2>1 DEF OneActive
<1>6. StagedIsApproved'
  BY <1>1 DEF StagedIsApproved, StillApproved
<1>7. Grows
  BY <1>1 DEF Grows, Sent, Shown
<1> QED
  BY <1>3, <1>4, <1>5, <1>6, <1>7

LEMMA MailKept ==
  ASSUME MailSound, Grows, UNCHANGED provider
  PROVE  MailSound'
BY DEF MailSound, Grows, provider

LEMMA EventsKept ==
  ASSUME EventsSound, UNCHANGED events
  PROVE  EventsSound'
BY DEF EventsSound

\* A step of the tables that the runs, the provider and the events do not see.
LEMMA TableStep ==
  ASSUME PacketInv, StoreSound', Grows, UNCHANGED <<runs, provider, events>>
  PROVE  PacketInv'
BY RunsKept, MailKept, EventsKept DEF PacketInv

-----------------------------------------------------------------------------
(* The host and the clock.                                                 *)

LEMMA PrepareSound ==
  ASSUME PacketInv, NEW p \in Packets, Prepare(p)
  PROVE  PacketInv'
<1> USE DEF PacketInv, StoreSound
<1>1. [status |-> "draft", draft |-> Unaddressed] \in Packet
  BY DraftsAssumption DEF DraftsAssumption, Packet
<1>2. StoreTyped'
  BY <1>1 DEF Prepare, StoreTyped
<1>3. StagedIsApproved'
  BY DEF Prepare, StoreTyped, StagedIsApproved, StillApproved
<1>4. RecordSound' /\ OneActive' /\ Grows
  BY DEF Prepare, RecordSound, OneActive, Grows, Sent, Shown, provider
<1> QED
  BY <1>2, <1>3, <1>4, TableStep DEF Prepare

LEMMA ApproveSound ==
  ASSUME PacketInv, NEW p \in Packets, Approve(p)
  PROVE  PacketInv'
<1> USE DEF PacketInv, StoreSound
<1>1. packets[p] \in Packet
  BY DEF StoreTyped
<1>2. [packets[p] EXCEPT !.status = "approved"] \in Packet
  BY <1>1, Zenon DEF Packet
<1>3. StoreTyped'
  BY <1>2 DEF Approve, StoreTyped
<1>4. StagedIsApproved'
  BY DEF Approve, StoreTyped, StagedIsApproved, StillApproved
<1>5. RecordSound' /\ OneActive' /\ Grows
  BY DEF Approve, RecordSound, OneActive, Grows, Sent, Shown, provider
<1> QED
  BY <1>3, <1>4, <1>5, TableStep DEF Approve

LEMMA UpdateSound ==
  ASSUME PacketInv, NEW p \in Packets, NEW d \in Drafts, UpdateDraft(p, d)
  PROVE  PacketInv'
<1> USE DEF PacketInv, StoreSound
<1> DEFINE Taken(r) == requests[r].packet = p
                       /\ requests[r].status = "awaiting_human_approval"
           Over(r) == [requests[r] EXCEPT !.status = "expired", !.error = "changed"]
<1>1. [status |-> "draft", draft |-> d] \in Packet
  BY DEF Packet
<1>2. ASSUME NEW r \in Requests
      PROVE  /\ Over(r) \in Request /\ Over(r).status = "expired"
             /\ Over(r).packet = requests[r].packet
             /\ Over(r).draft = requests[r].draft
  <2>1. requests[r] \in Request
    BY DEF StoreTyped
  <2>2. Over(r) \in Request
    BY <2>1, Zenon DEF Request, RequestStatus, Finished, Errors
  <2> QED
    BY <2>1, <2>2 DEF Request
<1>3. requests' = [r \in Requests |-> IF Taken(r) THEN Over(r) ELSE requests[r]]
  BY DEF UpdateDraft
<1> HIDE DEF Over
<1>4. \A r \in Requests : requests[r] \in Request
  BY DEF StoreTyped
<1>5. StoreTyped'
  BY <1>1, <1>2, <1>3, <1>4 DEF UpdateDraft, StoreTyped
<1>6. StagedIsApproved'
  <2> SUFFICES ASSUME NEW r \in Requests,
                      requests'[r].status = "awaiting_human_approval"
               PROVE  StillApproved(r)'
    BY DEF StagedIsApproved
  <2>1. ~Taken(r) /\ requests'[r] = requests[r]
    BY <1>2, <1>3
  <2>2. requests[r].packet # p /\ requests[r].packet \in Packets
    BY <1>4, <2>1 DEF Request
  <2>3. packets'[requests[r].packet] = packets[requests[r].packet]
    BY <2>2 DEF UpdateDraft, StoreTyped
  <2> QED
    BY <2>1, <2>3 DEF StagedIsApproved, StillApproved
<1>7. RecordSound'
  BY <1>2, <1>3, ZenonT(40) DEF UpdateDraft, RecordSound, Agree, Unauthorized, Mailed, provider
<1>8. Grows
  BY <1>2, <1>3 DEF UpdateDraft, Grows, Sent, Shown, Mailed, provider
<1>9. OneActive'
  <2>1. \A r \in Requests :
          /\ requests'[r].packet = requests[r].packet
          /\ requests'[r].draft = requests[r].draft
          /\ requests'[r].status \notin Finished \cup {"none"} =>
               requests[r].status \notin Finished \cup {"none"}
    BY <1>2, <1>3 DEF Finished
  <2> QED
    BY <2>1 DEF OneActive
<1> QED
  BY <1>5, <1>6, <1>7, <1>8, <1>9, TableStep DEF UpdateDraft

LEMMA StageSound ==
  ASSUME PacketInv, NEW p \in Packets, NEW r \in Requests, StageSend(p, r)
  PROVE  PacketInv'
<1> USE DEF PacketInv, StoreSound
<1> DEFINE x == [status |-> "awaiting_human_approval", packet |-> p,
                 draft |-> packets[p].draft, lapsed |-> FALSE, error |-> "none"]
<1>1. packets[p] \in Packet
  BY DEF StoreTyped
<1>2. x \in Request
  BY <1>1 DEF Packet, Request, RequestStatus, Errors
<1>3. requests' = [requests EXCEPT ![r] = x]
  BY DEF StageSend
<1>4. /\ x.status = "awaiting_human_approval" /\ x.packet = p
      /\ x.draft = packets[p].draft
  OBVIOUS
<1> HIDE DEF x
<1>5. StoreTyped'
  BY <1>2, <1>3 DEF StageSend, StoreTyped
<1>6. /\ requests'[r] = x
      /\ \A q \in Requests : q # r => requests'[q] = requests[q]
  BY <1>3 DEF StoreTyped
<1>7. StagedIsApproved'
  BY <1>4, <1>6 DEF StageSend, StagedIsApproved, StillApproved
<1>8. RecordSound'
  <2> SUFFICES ASSUME NEW q \in Requests
               PROVE  /\ Agree(requests'[q].status, shares'[q])
                      /\ shares'[q].known => q \in accepted'
                      /\ requests'[q].status = "failed" => q \in refused'
    BY DEF RecordSound
  <2>1. CASE q = r
    <3>1. Agree("none", shares[r])
      BY DEF StageSend, RecordSound
    <3> QED
      BY <1>4, <1>6, <2>1, <3>1 DEF StageSend, RecordSound, Agree, Unauthorized, Mailed, provider
  <2>2. CASE q # r
    BY <1>6, <2>2 DEF StageSend, RecordSound, provider
  <2> QED
    BY <2>1, <2>2
<1>9. OneActive'
  <2>1. ASSUME NEW q \in Requests, q # r,
               requests[q].status \notin Finished \cup {"none"},
               requests[q].packet = x.packet, requests[q].draft = x.draft
        PROVE  FALSE
    BY <1>4, <2>1 DEF StageSend, SameSnapshot
  <2> QED
    BY <1>6, <2>1 DEF OneActive
<1>10. Grows
  BY <1>6 DEF StageSend, Grows, Sent, Shown, Mailed, provider
<1> QED
  BY <1>5, <1>7, <1>8, <1>9, <1>10, TableStep DEF StageSend

LEMMA ShareIs ==
  ASSUME StoreTyped, NEW r \in Requests
  PROVE  shares[r] \in Share /\ shares = [shares EXCEPT ![r] = shares[r]]
BY DEF StoreTyped

LEMMA CancelSound ==
  ASSUME PacketInv, NEW r \in Requests, CancelSend(r)
  PROVE  PacketInv'
<1> USE DEF PacketInv, StoreSound
<1>1. /\ Agree("awaiting_human_approval", shares[r])
      /\ requests[r].status = "awaiting_human_approval"
  BY DEF CancelSend, RecordSound
<1>2. "cancelled" \in RequestStatus /\ "none" \in Errors
  BY DEF RequestStatus, Finished, Errors
<1>3. Agree("cancelled", shares[r]) /\ ~shares[r].known
  BY <1>1 DEF Agree, Unauthorized, Mailed
<1>4. requests' = Put(r, "cancelled", "none") /\ shares' = [shares EXCEPT ![r] = shares[r]]
  BY ShareIs DEF CancelSend
<1>5. StoreSound' /\ Grows
  BY <1>1, <1>2, <1>3, <1>4, ShareIs, RowSound DEF CancelSend, provider, Finished, Mailed
<1> QED
  BY <1>5, TableStep DEF CancelSend

LEMMA LapseSound ==
  ASSUME PacketInv, NEW r \in Requests, Lapse(r)
  PROVE  PacketInv'
<1> USE DEF PacketInv, StoreSound
<1> DEFINE x == [requests[r] EXCEPT !.lapsed = TRUE]
<1>1. requests[r] \in Request
  BY DEF StoreTyped
<1>2. x \in Request
  BY <1>1, Zenon DEF Request
<1>3. /\ x.status = requests[r].status /\ x.packet = requests[r].packet
      /\ x.draft = requests[r].draft
  BY <1>1 DEF Request
<1>4. requests' = [requests EXCEPT ![r] = x]
  BY DEF Lapse
<1> HIDE DEF x
<1>5. /\ requests' \in [Requests -> Request]
      /\ \A q \in Requests : /\ requests'[q].status = requests[q].status
                             /\ requests'[q].packet = requests[q].packet
                             /\ requests'[q].draft = requests[q].draft
  BY <1>2, <1>3, <1>4 DEF StoreTyped
<1>6. StoreSound' /\ Grows
  BY <1>5 DEF Lapse, StoreTyped, RecordSound, OneActive, StagedIsApproved,
              StillApproved, Grows, Sent, Shown, provider
<1> QED
  BY <1>6, TableStep DEF Lapse

LEMMA WindowSound ==
  ASSUME PacketInv, WindowPasses
  PROVE  PacketInv'
<1> USE DEF PacketInv
<1>1. StoreSound' /\ Grows
  BY StoreKept DEF WindowPasses, StoreSound, StoreTyped, provider
<1> QED
  BY <1>1, TableStep DEF WindowPasses

-----------------------------------------------------------------------------
(* Admission and authorisation.                                            *)

LEMMA ReqIs ==
  ASSUME RunsSound, NEW e \in Executors
  PROVE  /\ Req(e) \in Requests /\ runs[e] \in Run
         /\ RunSound(runs[e], Sent, accepted, refused, Shown)
BY DEF RunsSound, Run, Req

LEMMA BeginSound ==
  ASSUME PacketInv, NEW e \in Executors, NEW r \in Requests, NEW mode \in Modes,
         BeginExecute(e, r, mode)
  PROVE  PacketInv'
<1> USE DEF PacketInv
<1> DEFINE x == [phase |-> IF mode = "resend" THEN "reserving" ELSE "authorizing",
                 req |-> r, mode |-> mode, took |-> FALSE, outcome |-> "failed",
                 report |-> "none"]
<1>1. x \in Run
  BY ModesAssumption DEF ModesAssumption, Run, Phases, Outcomes, Reports
<1>2. /\ StoreSound' /\ Grows
      /\ RunSound(x, Sent', accepted', refused', Shown')
  BY StoreKept DEF BeginExecute, StoreSound, StoreTyped, store, provider, RunSound
<1>3. runs' = [runs EXCEPT ![e] = x]
  BY DEF BeginExecute
<1> HIDE DEF x
<1>4. RunsSound'
  BY <1>1, <1>2, <1>3, RunReplaced
<1> QED
  BY <1>2, <1>4, MailKept, EventsKept DEF BeginExecute

\* A step of one run that leaves the provider, the events and the tables of
\* packets, requests and shares alone.
LEMMA LoneRunStep ==
  ASSUME PacketInv, UNCHANGED <<packets, requests, shares, provider, events>>,
         admitted' \subseteq Requests, recent' \subseteq admitted',
         NEW e \in Executors,
         \/ Go(e, "authorizing")
         \/ Go(e, "posting") /\ Req(e) \in Sent
         \/ \E report \in Reports :
              /\ Answer(e, report)
              /\ report = "submitted" => Req(e) \in accepted
              /\ report = "failed" => Req(e) \in refused
              /\ report = "preview_only" => Req(e) \in Shown
  PROVE  PacketInv'
<1> USE DEF PacketInv
<1>1. StoreSound' /\ Grows /\ Sent' = Sent
  BY StoreKept DEF provider
<1>2. Req(e) \in Sent => Req(e) \in Sent'
  BY <1>1
<1>3. CASE Go(e, "authorizing")
  <2>1. RunsSound'
    BY <1>1, <1>3, GoSound
  <2> QED
    BY <1>1, <2>1, MailKept, EventsKept
<1>4. CASE Go(e, "posting") /\ Req(e) \in Sent
  <2>1. RunsSound'
    BY <1>1, <1>2, <1>4, GoSound
  <2> QED
    BY <1>1, <2>1, MailKept, EventsKept
<1>5. ASSUME NEW report \in Reports, Answer(e, report),
             report = "submitted" => Req(e) \in accepted,
             report = "failed" => Req(e) \in refused,
             report = "preview_only" => Req(e) \in Shown
      PROVE  PacketInv'
  <2>1. RunsSound'
    BY <1>1, <1>5, AnswerSound DEF Grows
  <2> QED
    BY <1>1, <2>1, MailKept, EventsKept
<1> QED
  BY <1>3, <1>4, <1>5

LEMMA ReserveSound ==
  ASSUME PacketInv, NEW e \in Executors,
         ReserveAgain(e) \/ ReserveNew(e) \/ ReserveRefused(e) \/ CallFails(e)
  PROVE  PacketInv'
<1>1. /\ Req(e) \in Requests /\ admitted \subseteq Requests /\ recent \subseteq admitted
      /\ "unavailable" \in Reports /\ "refused" \in Reports
  BY ReqIs DEF PacketInv, StoreSound, StoreTyped, Reports
<1>2. CASE ReserveAgain(e)
  BY <1>1, <1>2, LoneRunStep DEF ReserveAgain, store
<1>3. CASE ReserveNew(e)
  BY <1>1, <1>3, LoneRunStep DEF ReserveNew
<1>4. CASE ReserveRefused(e) \/ CallFails(e)
  BY <1>1, <1>4, LoneRunStep DEF ReserveRefused, CallFails, store
<1> QED
  BY <1>2, <1>3, <1>4

LEMMA AuthorizeNewSound ==
  ASSUME PacketInv, NEW e \in Executors, AuthorizeNew(e)
  PROVE  PacketInv'
<1> USE DEF PacketInv
<1> DEFINE r == Req(e)
           resend == runs[e].mode = "resend"
           s == IF resend THEN "sending" ELSE "preview_only"
           y == [shares[r] EXCEPT !.provider = runs[e].mode,
                   !.status = IF resend THEN "pending" ELSE "preview_only"]
<1>1. r \in Requests /\ runs[e] \in Run
  BY ReqIs
<1>2. shares[r] \in Share /\ runs[e].mode \in {"preview", "resend"}
  BY <1>1 DEF StoreSound, StoreTyped, Run
<1>3. y \in Share
  <2>1. CASE resend
    BY <1>2, <2>1, Zenon DEF Share, ShareStatus
  <2>2. CASE ~resend
    BY <1>2, <2>2, Zenon DEF Share, ShareStatus
  <2> QED
    BY <2>1, <2>2
<1>4. requests[r].status = "awaiting_human_approval" /\ ~shares[r].known
  BY <1>1 DEF AuthorizeNew, Reservable, StoreSound, RecordSound, Agree, Unauthorized
<1>5. /\ y.provider = runs[e].mode /\ y.known = shares[r].known
      /\ y.status = IF resend THEN "pending" ELSE "preview_only"
  BY <1>2 DEF Share
<1>6. requests' = Put(r, s, "none") /\ shares' = [shares EXCEPT ![r] = y]
  BY DEF AuthorizeNew
<1>7. s \in RequestStatus /\ "none" \in Errors
  BY DEF RequestStatus, Authorized, Errors
<1> HIDE DEF y
<1>8. Agree(s, y)
  BY <1>2, <1>4, <1>5 DEF Agree, Mailed, Unauthorized
<1>9. StoreSound' /\ Grows
  BY <1>1, <1>3, <1>4, <1>5, <1>6, <1>7, <1>8, RowSound
     DEF AuthorizeNew, provider, Finished, Mailed
<1>10. requests'[r].status = s
  BY <1>1, <1>6, <1>7, PutIs DEF StoreSound
<1>11. resend => r \in Sent'
  BY <1>1, <1>10 DEF Sent, Mailed
<1>12. ~resend => r \in Shown'
  BY <1>1, <1>10 DEF Shown
<1>13. "unavailable" \in Reports /\ "preview_only" \in Reports
  BY DEF Reports
<1>14. RunsSound'
  <2>1. CASE resend /\ Go(e, "posting")
    BY <1>9, <1>11, <2>1, GoSound
  <2>2. CASE ~resend /\ Answer(e, "preview_only")
    BY <1>9, <1>12, <1>13, <2>2, AnswerSound
  <2>3. CASE Answer(e, "unavailable")
    BY <1>9, <1>13, <2>3, AnswerSound
  <2> QED
    BY <2>1, <2>2, <2>3 DEF AuthorizeNew
<1> QED
  BY <1>9, <1>14, MailKept, EventsKept DEF AuthorizeNew

LEMMA AuthorizeExpiresSound ==
  ASSUME PacketInv, NEW e \in Executors, AuthorizeExpires(e)
  PROVE  PacketInv'
<1> USE DEF PacketInv
<1> DEFINE r == Req(e)
           error == IF requests[r].lapsed THEN "expired" ELSE "stale"
<1>1. r \in Requests
  BY ReqIs
<1>2. /\ Agree("awaiting_human_approval", shares[r])
      /\ requests[r].status = "awaiting_human_approval"
  BY <1>1 DEF AuthorizeExpires, StoreSound, RecordSound
<1>3. Agree("expired", shares[r]) /\ ~shares[r].known
  BY <1>2 DEF Agree, Unauthorized, Mailed
<1>4. "expired" \in RequestStatus /\ error \in Errors /\ "refused" \in Reports
  BY DEF RequestStatus, Finished, Errors, Reports
<1>5. requests' = Put(r, "expired", error) /\ shares' = [shares EXCEPT ![r] = shares[r]]
  BY <1>1, ShareIs DEF AuthorizeExpires, StoreSound
<1>6. shares[r] \in Share
  BY <1>1, ShareIs DEF StoreSound
<1>7. StoreSound' /\ Grows
  BY <1>1, <1>2, <1>3, <1>4, <1>5, <1>6, RowSound
     DEF AuthorizeExpires, provider, Finished, Mailed
<1>8. RunsSound'
  BY <1>4, <1>7, AnswerSound DEF AuthorizeExpires
<1> QED
  BY <1>7, <1>8, MailKept, EventsKept DEF AuthorizeExpires

LEMMA AuthorizeAgainSound ==
  ASSUME PacketInv, NEW e \in Executors, AuthorizeAgain(e) \/ AuthorizeRefused(e)
  PROVE  PacketInv'
<1> DEFINE r == Req(e)
<1>1. /\ r \in Requests /\ admitted \subseteq Requests /\ recent \subseteq admitted
      /\ Agree(requests[r].status, shares[r])
      /\ shares[r].known => r \in accepted
      /\ requests[r].status = "failed" => r \in refused
  BY ReqIs DEF PacketInv, StoreSound, StoreTyped, RecordSound
<1>2. {"unavailable", "refused", "submitted", "failed", "preview_only"} \subseteq Reports
  BY DEF Reports, Outcomes
<1>3. CASE AuthorizeRefused(e)
  BY <1>1, <1>2, <1>3, LoneRunStep DEF AuthorizeRefused, store
<1>4. CASE AuthorizeAgain(e)
  <2>1. requests[r].status = "submitted" => r \in accepted
    BY <1>1 DEF Agree
  <2>2. shares[r].provider = "resend" => r \in Sent
    BY <1>1, <1>4 DEF AuthorizeAgain, Authorized, Agree, Sent, Mailed
  <2>3. shares[r].provider = "preview" => r \in Shown
    BY <1>1, <1>4 DEF AuthorizeAgain, Authorized, Agree, Shown, Mailed
  <2>4. UNCHANGED <<packets, requests, shares, admitted, recent, provider, events>>
    BY <1>4 DEF AuthorizeAgain, store
  <2>5. \/ Go(e, "posting") /\ r \in Sent
        \/ Answer(e, "submitted") /\ r \in accepted
        \/ Answer(e, "failed") /\ r \in refused
        \/ Answer(e, "preview_only") /\ r \in Shown
        \/ Answer(e, "unavailable")
    BY <1>1, <1>4, <2>1, <2>2, <2>3 DEF AuthorizeAgain
  <2> QED
    BY <1>1, <1>2, <2>4, <2>5, LoneRunStep
<1> QED
  BY <1>3, <1>4

-----------------------------------------------------------------------------
(* The provider and its answers.                                           *)

LEMMA ProviderAcceptsSound ==
  ASSUME PacketInv, NEW e \in Executors, ProviderAccepts(e)
  PROVE  PacketInv'
<1> USE DEF PacketInv
<1> DEFINE x == [runs[e] EXCEPT !.took = TRUE]
<1>1. /\ Req(e) \in Requests /\ runs[e] \in Run
      /\ RunSound(runs[e], Sent, accepted, refused, Shown)
  BY ReqIs
<1>2. x \in Run
  BY <1>1, Zenon DEF Run
<1>3. /\ x.phase = "posting" /\ x.req = Req(e) /\ x.took = TRUE
      /\ x.report = runs[e].report /\ runs[e].phase = "posting"
  BY <1>1 DEF Run, ProviderAccepts, At, Req
<1>4. StoreSound' /\ Grows /\ Sent' = Sent /\ Shown' = Shown
  BY StoreKept DEF ProviderAccepts, StoreSound, StoreTyped, store, Shown
<1>5. runs' = [runs EXCEPT ![e] = x] /\ accepted' = accepted \cup {Req(e)}
  BY DEF ProviderAccepts
<1> HIDE DEF x
<1>6. RunSound(x, Sent', accepted', refused', Shown')
  BY <1>1, <1>3, <1>4, <1>5 DEF RunSound, ProviderAccepts, Req
<1>7. RunsSound'
  BY <1>2, <1>4, <1>5, <1>6, RunReplaced
<1>8. Req(e) \in Sent
  BY <1>1, <1>3 DEF RunSound, Req
<1>9. MailSound'
  BY <1>4, <1>8 DEF ProviderAccepts, Acceptable, MailSound
<1> QED
  BY <1>4, <1>7, <1>9, EventsKept DEF ProviderAccepts

LEMMA TransitSound ==
  ASSUME PacketInv, NEW r \in Requests, ProviderAcceptsLate(r) \/ LosePost(r)
  PROVE  PacketInv'
<1> USE DEF PacketInv
<1>1. StoreSound' /\ Grows /\ Sent' = Sent
  BY StoreKept DEF ProviderAcceptsLate, LosePost, StoreSound, StoreTyped, store
<1>2. RunsSound'
  BY <1>1, RunsKept DEF ProviderAcceptsLate, LosePost
<1>3. MailSound'
  BY <1>1 DEF ProviderAcceptsLate, LosePost, Acceptable, MailSound
<1> QED
  BY <1>1, <1>2, <1>3, EventsKept DEF ProviderAcceptsLate, LosePost

LEMMA PostSound ==
  ASSUME PacketInv, NEW e \in Executors,
         PostAccepted(e) \/ PostRejected(e) \/ PostAmbiguous(e)
  PROVE  PacketInv'
<1> USE DEF PacketInv
<1>1. /\ Req(e) \in Requests /\ runs[e] \in Run /\ runs[e].phase = "posting"
      /\ RunSound(runs[e], Sent, accepted, refused, Shown)
  BY ReqIs DEF PostAccepted, PostRejected, PostAmbiguous, At
<1>2. Req(e) \in Sent
  BY <1>1 DEF RunSound, Req
<1>3. StoreSound' /\ Grows /\ Sent' = Sent
  BY StoreKept DEF PostAccepted, PostRejected, PostAmbiguous, StoreSound, StoreTyped,
                   store, provider
<1>4. MailSound'
  BY <1>2, <1>3 DEF PostAccepted, PostRejected, PostAmbiguous, MailSound, provider
<1>5. PICK o \in Outcomes :
        /\ runs' = [runs EXCEPT ![e].phase = "completing", ![e].outcome = o]
        /\ o = "submitted" => runs[e].took
        /\ o = "failed" => Req(e) \in refused'
  BY DEF PostAccepted, PostRejected, PostAmbiguous, Outcomes
<1> DEFINE x == [runs[e] EXCEPT !.phase = "completing", !.outcome = o]
<1>6. x \in Run
  BY <1>1, Zenon DEF Run, Phases
<1>7. /\ x.phase = "completing" /\ x.req = Req(e) /\ x.took = runs[e].took
      /\ x.outcome = o /\ x.report = runs[e].report
  BY <1>1 DEF Run, Req
<1>8. runs' = [runs EXCEPT ![e] = x]
  BY <1>5
<1> HIDE DEF x
<1>9. RunSound(x, Sent', accepted', refused', Shown')
  BY <1>1, <1>2, <1>3, <1>5, <1>7 DEF RunSound, Grows, Req
<1>10. RunsSound'
  BY <1>3, <1>6, <1>8, <1>9, RunReplaced
<1> QED
  BY <1>3, <1>4, <1>10, EventsKept DEF PostAccepted, PostRejected, PostAmbiguous

LEMMA CrashSound ==
  ASSUME PacketInv, NEW e \in Executors, Crash(e)
  PROVE  PacketInv'
<1> USE DEF PacketInv
<1>1. /\ Req(e) \in Requests /\ "none" \in Reports
      /\ runs[e].phase = "posting" => Req(e) \in Sent
  BY ReqIs DEF RunSound, Req, Reports
<1>2. StoreSound' /\ Grows /\ Sent' = Sent
  BY StoreKept DEF Crash, StoreSound, StoreTyped, store
<1>3. RunsSound'
  BY <1>1, <1>2, AnswerSound DEF Crash
<1>4. MailSound'
  BY <1>1, <1>2 DEF Crash, MailSound, At
<1> QED
  BY <1>2, <1>3, <1>4, EventsKept DEF Crash

-----------------------------------------------------------------------------
(* Recording the outcome.                                                  *)

LEMMA CompleteSound ==
  ASSUME PacketInv, NEW r \in Requests, NEW o \in Outcomes, NEW known \in BOOLEAN,
         NEW error \in Errors,
         Complete(r, o, known, error) \/ UNCHANGED <<requests, shares>>,
         UNCHANGED <<packets, admitted, recent, provider>>,
         known => r \in accepted, o = "submitted" => known,
         o = "failed" => ~known /\ r \in refused
  PROVE  StoreSound' /\ Grows
<1> USE DEF PacketInv
<1> DEFINE y == [shares[r] EXCEPT !.status = o, !.known = known \/ shares[r].known]
<1>1. CASE UNCHANGED <<requests, shares>>
  BY <1>1, StoreKept DEF StoreSound, StoreTyped, provider
<1>2. CASE Completable(r, o, known, error) /\ Complete(r, o, known, error)
  <2>1. /\ requests[r].status \in {"sending", "reconciling"}
        /\ shares[r].known => known
    BY <1>2 DEF Completable
  <2>2. /\ shares[r] \in Share /\ Agree(requests[r].status, shares[r])
    BY DEF StoreSound, StoreTyped, RecordSound
  <2>3. (known \/ shares[r].known) \in BOOLEAN /\ o \in ShareStatus /\ o \in RequestStatus
    BY <2>2 DEF Share, Outcomes, ShareStatus, RequestStatus, MailKinds, Authorized
  <2>4. y \in Share
    BY <2>2, <2>3, Zenon DEF Share
  <2>5. /\ y.status = o /\ y.known = (known \/ shares[r].known)
        /\ y.provider = shares[r].provider
    BY <2>2 DEF Share
  <2>6. requests' = Put(r, o, error) /\ shares' = [shares EXCEPT ![r] = y]
    BY <1>2 DEF Complete
  <2> HIDE DEF y
  <2>7. Agree(o, y)
    BY <2>1, <2>2, <2>5 DEF Agree, Mailed, Unauthorized, Outcomes, MailKinds
  <2>8. y.known => r \in accepted
    BY <2>1, <2>5
  <2> QED
    BY <2>1, <2>3, <2>4, <2>6, <2>7, <2>8, RowSound
       DEF provider, Outcomes, Mailed, Finished
<1> QED
  BY <1>1, <1>2 DEF Complete

LEMMA CompleteSendSound ==
  ASSUME PacketInv, NEW e \in Executors, CompleteSend(e)
  PROVE  PacketInv'
<1> USE DEF PacketInv
<1> DEFINE r == Req(e)
           o == runs[e].outcome
           known == o = "submitted"
<1>1. /\ r \in Requests /\ runs[e] \in Run /\ runs[e].phase = "completing"
      /\ RunSound(runs[e], Sent, accepted, refused, Shown)
  BY ReqIs DEF CompleteSend, At
<1>2. o \in Outcomes
  BY <1>1 DEF Run
<1>3. ErrorOf(o) \in Errors /\ o \in Reports /\ "unrecorded" \in Reports
  BY <1>2 DEF ErrorOf, Outcomes, Errors, Reports
<1>4. /\ r \in Sent /\ known \in BOOLEAN
      /\ o = "submitted" => r \in accepted
      /\ o = "failed" => r \in refused
  BY <1>1 DEF RunSound, Req
<1>5. /\ Complete(r, o, known, ErrorOf(o)) \/ UNCHANGED <<requests, shares>>
      /\ UNCHANGED <<packets, admitted, recent, provider, events>>
  BY DEF CompleteSend
<1>6. Answer(e, o) \/ (o = "submitted" /\ Go(e, "recording")) \/ Answer(e, "unrecorded")
  BY DEF CompleteSend
<1>7. (known => o = "submitted") /\ (o = "submitted" => known)
  OBVIOUS
<1> HIDE DEF o, known, r
<1>8. StoreSound' /\ Grows
  <2>1. known => r \in accepted
    BY <1>4, <1>7
  <2>2. o = "failed" => ~known /\ r \in refused
    BY <1>4, <1>7
  <2> QED
    BY <1>1, <1>2, <1>3, <1>4, <1>5, <1>7, <2>1, <2>2, CompleteSound
<1>9. r \in accepted => r \in accepted'
  BY <1>8 DEF Grows
<1>10. r \in Sent' /\ (o = "failed" => r \in refused')
  BY <1>4, <1>8 DEF Grows
<1> USE DEF r
<1>11. RunsSound'
  <2>1. CASE Answer(e, o)
    <3>1. o # "preview_only"
      BY <1>2 DEF Outcomes
    <3> QED
      BY <1>3, <1>4, <1>8, <1>9, <1>10, <2>1, <3>1, AnswerSound
  <2>2. CASE o = "submitted" /\ Go(e, "recording")
    BY <1>4, <1>8, <1>9, <1>10, <2>2, GoSound
  <2>3. CASE Answer(e, "unrecorded")
    BY <1>3, <1>8, <2>3, AnswerSound
  <2> QED
    BY <1>6, <2>1, <2>2, <2>3
<1> QED
  BY <1>5, <1>8, <1>11, MailKept, EventsKept

LEMMA RecordInDoubtSound ==
  ASSUME PacketInv, NEW e \in Executors, RecordInDoubt(e)
  PROVE  PacketInv'
<1> USE DEF PacketInv
<1> DEFINE r == Req(e)
<1>1. /\ r \in Requests /\ runs[e].phase = "recording"
      /\ RunSound(runs[e], Sent, accepted, refused, Shown)
  BY ReqIs DEF RecordInDoubt, At
<1>2. r \in accepted /\ r \in Sent
  BY <1>1 DEF RunSound, Req
<1>3. "reconciling" \in Outcomes /\ "recording" \in Errors /\ "reconciling" \in Reports
  BY DEF Outcomes, Errors, Reports
<1>4. /\ \/ Complete(r, "reconciling", TRUE, "recording")
         \/ UNCHANGED <<requests, shares>>
      /\ UNCHANGED <<packets, admitted, recent, provider, events>>
  BY DEF RecordInDoubt
<1>5. StoreSound' /\ Grows
  BY <1>1, <1>2, <1>3, <1>4, CompleteSound
<1>6. r \in accepted' /\ r \in Sent'
  BY <1>2, <1>5 DEF Grows
<1>7. RunsSound'
  <2>1. CASE Answer(e, "reconciling")
    BY <1>3, <1>5, <2>1, AnswerSound
  <2>2. CASE Go(e, "recovering")
    BY <1>5, <1>6, <2>2, GoSound
  <2> QED
    BY <2>1, <2>2 DEF RecordInDoubt
<1> QED
  BY <1>4, <1>5, <1>7, MailKept, EventsKept

LEMMA RecoverSound ==
  ASSUME PacketInv, NEW e \in Executors, Recover(e)
  PROVE  PacketInv'
<1> DEFINE r == Req(e)
<1>1. /\ r \in Requests /\ admitted \subseteq Requests /\ recent \subseteq admitted
      /\ shares[r].known => r \in accepted
  BY ReqIs DEF PacketInv, StoreSound, StoreTyped, RecordSound
<1>2. {"unrecorded", "submitted", "reconciling"} \subseteq Reports
  BY DEF Reports, Outcomes
<1>3. UNCHANGED <<packets, requests, shares, admitted, recent, provider, events>>
  BY DEF Recover, store
<1>4. \/ Answer(e, "submitted") /\ r \in accepted
      \/ Answer(e, "reconciling")
      \/ Answer(e, "unrecorded")
  BY <1>1 DEF Recover
<1> QED
  BY <1>1, <1>2, <1>3, <1>4, LoneRunStep

-----------------------------------------------------------------------------
(* Delivery events.                                                        *)

\* Marking an event leaves everything else as it was.
LEMMA MarkSound ==
  ASSUME EventsSound, NEW ev \in events,
         NEW seen \in {"new", "unmatched", "late", "settled", "ignored"},
         Mark(ev, seen)
  PROVE  EventsSound'
<1> DEFINE x == [ev EXCEPT !.seen = seen]
<1>1. ev \in Event
  BY DEF EventsSound
<1>2. x \in Event
  BY <1>1, Zenon DEF Event
<1>3. events' = (events \ {ev}) \cup {x}
  BY DEF Mark
<1> HIDE DEF x
<1>4. IsFiniteSet(events \ {ev})
  BY FS_RemoveElement DEF EventsSound
<1>5. IsFiniteSet(events')
  BY <1>3, <1>4, FS_AddElement
<1> QED
  BY <1>2, <1>3, <1>5 DEF EventsSound

LEMMA ProviderReportsSound ==
  ASSUME PacketInv, NEW r \in Requests, NEW kind \in MailKinds, ProviderReports(r, kind)
  PROVE  PacketInv'
<1> USE DEF PacketInv
<1> DEFINE n == Cardinality(EventsOf(r))
           x == [req |-> r, at |-> n + 1, kind |-> kind, seen |-> "new"]
<1>1. IsFiniteSet(EventsOf(r))
  <2>1. EventsOf(r) \in SUBSET events
    BY DEF EventsOf
  <2> QED
    BY <2>1, FS_Subset DEF EventsSound
<1>2. n \in Nat
  BY <1>1, FS_CardinalityType
<1>3. n < MaxEvents /\ events' = events \cup {x}
  BY DEF ProviderReports
<1> HIDE DEF n
<1>4. x \in Event
  BY <1>2, <1>3, BoundsAssumption DEF BoundsAssumption, Event
<1> HIDE DEF x
<1>5. EventsSound'
  BY <1>3, <1>4, FS_AddElement DEF EventsSound
<1>6. StoreSound' /\ Grows
  BY StoreKept DEF ProviderReports, StoreSound, StoreTyped, store, provider
<1> QED
  BY <1>5, <1>6, RunsKept, MailKept DEF ProviderReports

LEMMA EventSetAsideSound ==
  ASSUME PacketInv, NEW ev \in events, EventUnmatched(ev) \/ EventGrowsOld(ev)
  PROVE  PacketInv'
<1> USE DEF PacketInv
<1>1. StoreSound' /\ Grows
  BY StoreKept DEF EventUnmatched, EventGrowsOld, StoreSound, StoreTyped, store, provider
<1>2. EventsSound'
  BY MarkSound DEF EventUnmatched, EventGrowsOld
<1> QED
  BY <1>1, <1>2, RunsKept, MailKept DEF EventUnmatched, EventGrowsOld

LEMMA EventAppliesSound ==
  ASSUME PacketInv, NEW ev \in events, EventApplies(ev)
  PROVE  PacketInv'
<1> USE DEF PacketInv
<1> DEFINE r == ev.req
           y == [shares[r] EXCEPT !.status = ev.kind, !.last = ev.at]
<1>1. /\ r \in Requests /\ ev.at \in 1 .. MaxEvents /\ ev.kind \in MailKinds
  BY DEF EventsSound, Event
<1>2. EventsSound'
  BY MarkSound DEF EventApplies
<1>3. CASE UNCHANGED <<requests, shares>>
  <2>1. StoreSound' /\ Grows
    BY <1>3, StoreKept DEF EventApplies, StoreSound, StoreTyped, provider
  <2> QED
    BY <1>2, <2>1, RunsKept, MailKept DEF EventApplies
<1>4. CASE ~Stale(ev) /\ shares' = [shares EXCEPT ![r] = y]
  <2>1. /\ shares[r] \in Share /\ shares[r].known
        /\ Agree(requests[r].status, shares[r])
        /\ requests[r] \in Request /\ r \in accepted
    BY <1>1 DEF EventApplies, Matched, StoreSound, StoreTyped, RecordSound
  <2>2. requests[r].status \in {"sending", "reconciling", "submitted"}
    BY <2>1 DEF Agree, Unauthorized, Request, RequestStatus, Authorized, Finished
  <2>3. ev.kind \in ShareStatus /\ ev.at \in 0 .. MaxEvents
    BY <1>1, BoundsAssumption DEF BoundsAssumption, ShareStatus
  <2>4. y \in Share
    BY <2>1, <2>3, Zenon DEF Share
  <2>5. y.status = ev.kind /\ y.known /\ y.provider = shares[r].provider
    BY <2>1 DEF Share
  <2> HIDE DEF y
  <2>6. Agree("submitted", y)
    BY <1>1, <2>1, <2>2, <2>5 DEF Agree, Unauthorized, Mailed
  <2>7. "submitted" \in RequestStatus /\ "none" \in Errors
    BY DEF RequestStatus, Authorized, Errors
  <2>8. CASE requests' = Put(r, "submitted", "none")
    <3>1. StoreSound' /\ Grows
      BY <1>1, <1>4, <2>1, <2>2, <2>4, <2>6, <2>7, <2>8, RowSound
         DEF EventApplies, provider, Finished, Mailed
    <3> QED
      BY <1>2, <3>1, RunsKept, MailKept DEF EventApplies
  <2>9. CASE UNCHANGED requests /\ requests[r].status = "submitted"
    <3>1. /\ shares' \in [Requests -> Share] /\ shares'[r] = y
          /\ \A q \in Requests : q # r => shares'[q] = shares[q]
      BY <1>1, <1>4, <2>4 DEF StoreSound, StoreTyped
    <3>2. RecordSound'
      <4> SUFFICES ASSUME NEW q \in Requests
                   PROVE  /\ Agree(requests'[q].status, shares'[q])
                          /\ shares'[q].known => q \in accepted'
                          /\ requests'[q].status = "failed" => q \in refused'
        BY DEF RecordSound
      <4>1. CASE q = r
        BY <2>1, <2>6, <2>9, <3>1, <4>1 DEF EventApplies, provider
      <4>2. CASE q # r
        BY <2>9, <3>1, <4>2 DEF EventApplies, provider, StoreSound, RecordSound
      <4> QED
        BY <4>1, <4>2
    <3>3. StoreTyped' /\ OneActive' /\ StagedIsApproved' /\ Grows
      BY <2>9, <3>1 DEF EventApplies, StoreSound, StoreTyped, OneActive,
                        StagedIsApproved, StillApproved, Grows, Sent, Shown, provider
    <3>4. StoreSound'
      BY <3>2, <3>3 DEF StoreSound
    <3> QED
      BY <1>2, <3>3, <3>4, RunsKept, MailKept DEF EventApplies
  <2>10. requests[r].status \in {"sending", "reconciling"} => shares[r].status # ev.kind
    BY <1>1, <2>1 DEF Agree, MailKinds, Adverse
  <2> QED
    BY <2>2, <2>8, <2>9, <2>10, <1>4 DEF EventApplies
<1> QED
  BY <1>3, <1>4 DEF EventApplies

-----------------------------------------------------------------------------
(* The invariant.                                                          *)

LEMMA InitSound ==
  ASSUME Init
  PROVE  PacketInv
<1>1. PICK p \in Packets : p = (CHOOSE q \in Packets : TRUE)
  BY RowsAssumption DEF RowsAssumption
<1>2. PICK r \in Requests : r = (CHOOSE q \in Requests : TRUE)
  BY RowsAssumption DEF RowsAssumption
<1>3. NoRequest \in Request /\ NoRequest.status = "none"
  BY <1>1, DraftsAssumption DEF DraftsAssumption, NoRequest, Request, RequestStatus, Errors
<1>4. NoShare \in Share /\ Agree("none", NoShare) /\ ~NoShare.known
  BY BoundsAssumption DEF BoundsAssumption, NoShare, Share, ShareStatus, Agree,
                          Unauthorized, Mailed
<1>5. /\ NoRun(r) \in Run /\ NoRun(r).phase = "idle" /\ ~NoRun(r).took
      /\ NoRun(r).report = "none"
  BY DEF NoRun, Run, Phases, Outcomes, Reports
<1>6. [status |-> "none", draft |-> Unaddressed] \in Packet
  BY DraftsAssumption DEF DraftsAssumption, Packet
<1>7. StoreTyped
  BY <1>3, <1>4, <1>6 DEF Init, StoreTyped
<1>8. RecordSound /\ OneActive /\ StagedIsApproved
  BY <1>3, <1>4 DEF Init, RecordSound, OneActive, StagedIsApproved
<1>9. RunsSound
  BY <1>2, <1>5 DEF Init, RunsSound, RunSound
<1>10. MailSound /\ EventsSound
  BY FS_EmptySet DEF Init, MailSound, EventsSound
<1> QED
  BY <1>7, <1>8, <1>9, <1>10 DEF PacketInv, StoreSound

LEMMA StepSound ==
  ASSUME PacketInv, [Next]_vars
  PROVE  PacketInv'
<1>1. CASE UNCHANGED vars
  <2>1. StoreSound' /\ Grows
    BY <1>1, StoreKept DEF vars, PacketInv, StoreSound, StoreTyped
  <2> QED
    BY <1>1, <2>1, TableStep DEF vars, provider
<1>2. CASE Host
  BY <1>2, PrepareSound, ApproveSound, UpdateSound, StageSound, CancelSound DEF Host
<1>3. ASSUME NEW e \in Executors, NEW r \in Requests, NEW mode \in Modes,
             BeginExecute(e, r, mode)
      PROVE  PacketInv'
  BY <1>3, BeginSound
<1>4. ASSUME NEW e \in Executors, Execution(e)
      PROVE  PacketInv'
  BY <1>4, ReserveSound, AuthorizeNewSound, AuthorizeExpiresSound, AuthorizeAgainSound,
     PostSound, CompleteSendSound, RecordInDoubtSound, RecoverSound, CrashSound
     DEF Execution
<1>5. ASSUME NEW ev \in events, Webhook(ev)
      PROVE  PacketInv'
  BY <1>5, EventSetAsideSound, EventAppliesSound DEF Webhook
<1>6. CASE Time
  BY <1>6, LapseSound, WindowSound, EventSetAsideSound DEF Time
<1>7. CASE Provider
  BY <1>7, ProviderAcceptsSound, TransitSound, ProviderReportsSound DEF Provider
<1> QED
  BY <1>1, <1>2, <1>3, <1>4, <1>5, <1>6, <1>7 DEF Next

LEMMA InvariantHolds == Spec => []PacketInv
<1>1. Init => PacketInv
  BY InitSound
<1>2. PacketInv /\ [Next]_vars => PacketInv'
  BY StepSound
<1> QED
  BY <1>1, <1>2, PTL DEF Spec

-----------------------------------------------------------------------------
(* What it says.                                                           *)

\* Every row of every table is one the database accepts.
THEOREM RowsAreTyped == Spec => []TypeOK
<1>1. PacketInv => TypeOK
  BY DEF PacketInv, StoreSound, StoreTyped, RunsSound, MailSound, EventsSound, Sent, TypeOK
<1> QED
  BY <1>1, InvariantHolds, PTL

\* What waits for the host is what the host approved: an edit never leaves a
\* staged send behind (update_meeting_packet_draft).
THEOREM StagedStaysApproved == Spec => []StagedIsApproved
<1>1. PacketInv => StagedIsApproved
  BY DEF PacketInv, StoreSound
<1> QED
  BY <1>1, InvariantHolds, PTL

\* A send recorded as submitted, or with a message id, is a mail the provider
\* took, after any loss of answers and any crash (executeSend).
THEOREM SubmittedStaysTrue == Spec => []SubmittedIsTrue
<1>1. PacketInv => SubmittedIsTrue
  BY DEF PacketInv, StoreSound, RecordSound, Agree, SubmittedIsTrue
<1> QED
  BY <1>1, InvariantHolds, PTL

\* A request is submitted exactly when its share says what became of the mail
\* (complete_meeting_packet_send, apply_resend_delivery_event).
THEOREM RequestsFollowShares == Spec => []RequestFollowsShare
<1>1. PacketInv => RequestFollowsShare
  <2> SUFFICES ASSUME PacketInv, NEW r \in Requests
               PROVE  shares[r].status \in MailKinds <=> requests[r].status = "submitted"
    BY DEF RequestFollowsShare
  <2>1. requests[r].status \in RequestStatus /\ Agree(requests[r].status, shares[r])
    BY DEF PacketInv, StoreSound, StoreTyped, RecordSound, Request
  <2> QED
    BY <2>1 DEF Agree, RequestStatus, Authorized, Finished, Unauthorized, MailKinds, Adverse
<1> QED
  BY <1>1, InvariantHolds, PTL

\* A send that was taken back, or whose time is over, stays so: no step of any server
\* function, event or clock brings it back.
LEMMA WithdrawnStays ==
  ASSUME PacketInv, NEW r \in Requests, Withdrawn(r), [Next]_vars
  PROVE  Withdrawn(r)'
<1>1. requests \in [Requests -> Request]
  BY DEF PacketInv, StoreSound, StoreTyped
<1>2. ASSUME requests'[r] = requests[r]  PROVE Withdrawn(r)'
  BY <1>2 DEF Withdrawn
<1>3. ASSUME NEW q \in Requests, NEW s \in RequestStatus, NEW error \in Errors,
             requests' = Put(q, s, error), q = r => s \in {"cancelled", "expired"}
      PROVE  Withdrawn(r)'
  <2>1. CASE q = r
    BY <1>3, <2>1, PutIs DEF PacketInv, StoreSound, Withdrawn
  <2>2. CASE q # r
    <3>1. requests'[r] = requests[r]
      BY <1>3, <2>2, PutIs DEF PacketInv, StoreSound
    <3> QED
      BY <1>2, <3>1
  <2> QED
    BY <2>1, <2>2
<1>4. requests[r].status \in {"cancelled", "expired", "awaiting_human_approval"}
  BY DEF Withdrawn
<1>5. CASE Host
  <2>1. ASSUME NEW p \in Packets, Prepare(p) \/ Approve(p)  PROVE Withdrawn(r)'
    BY <1>2, <2>1 DEF Prepare, Approve
  <2>2. ASSUME NEW p \in Packets, NEW d \in Drafts, UpdateDraft(p, d)  PROVE Withdrawn(r)'
    <3>1. requests'[r] = requests[r] \/ requests'[r].status = "expired"
      BY <1>1, <2>2 DEF UpdateDraft, Request
    <3> QED
      BY <1>2, <3>1 DEF Withdrawn
  <2>3. ASSUME NEW p \in Packets, NEW q \in Requests, StageSend(p, q)  PROVE Withdrawn(r)'
    <3>1. requests[q].status = "none" /\ \A x \in Requests : x # q => requests'[x] = requests[x]
      BY <1>1, <2>3 DEF StageSend
    <3> QED
      BY <1>2, <1>4, <3>1
  <2>4. ASSUME NEW q \in Requests, CancelSend(q)  PROVE Withdrawn(r)'
    <3>1. "cancelled" \in RequestStatus /\ "none" \in Errors
      BY DEF RequestStatus, Finished, Errors
    <3> QED
      BY <1>3, <2>4, <3>1 DEF CancelSend
  <2> QED
    BY <1>5, <2>1, <2>2, <2>3, <2>4 DEF Host
<1>6. CASE \E e \in Executors, q \in Requests, mode \in Modes : BeginExecute(e, q, mode)
  BY <1>2, <1>6 DEF BeginExecute, store
<1>7. ASSUME NEW e \in Executors, Execution(e)
      PROVE  Withdrawn(r)'
  <2>1. Req(e) \in Requests /\ runs[e] \in Run
    BY ReqIs DEF PacketInv
  <2>2. ASSUME AuthorizeNew(e)  PROVE Withdrawn(r)'
    <3> DEFINE s == IF runs[e].mode = "resend" THEN "sending" ELSE "preview_only"
    <3>1. s \in RequestStatus /\ "none" \in Errors
      BY DEF RequestStatus, Authorized, Errors
    <3>2. requests' = Put(Req(e), s, "none") /\ Reservable(Req(e))
      BY <2>2 DEF AuthorizeNew
    <3>3. Req(e) # r
      BY <3>2 DEF Reservable, Withdrawn
    <3> HIDE DEF s
    <3> QED
      BY <1>3, <2>1, <3>1, <3>2, <3>3
  <2>3. ASSUME AuthorizeExpires(e)  PROVE Withdrawn(r)'
    <3> DEFINE error == IF requests[Req(e)].lapsed THEN "expired" ELSE "stale"
    <3>1. "expired" \in RequestStatus /\ error \in Errors
      BY DEF RequestStatus, Finished, Errors
    <3>2. requests' = Put(Req(e), "expired", error)
      BY <2>3 DEF AuthorizeExpires
    <3> HIDE DEF error
    <3> QED
      BY <1>3, <2>1, <3>1, <3>2
  <2>4. ASSUME NEW o \in RequestStatus, NEW known, NEW error \in Errors,
               Complete(Req(e), o, known, error)
        PROVE  Withdrawn(r)'
    <3>1. CASE UNCHANGED requests
      BY <1>2, <3>1
    <3>2. CASE /\ requests' = Put(Req(e), o, error)
               /\ requests[Req(e)].status \in {"sending", "reconciling"}
      BY <1>3, <1>4, <2>1, <3>2
    <3> QED
      BY <2>4, <3>1, <3>2 DEF Complete, Completable
  <2>5. ASSUME CompleteSend(e) \/ RecordInDoubt(e)  PROVE Withdrawn(r)'
    <3> DEFINE o == runs[e].outcome
    <3>1. o \in Outcomes
      BY <2>1 DEF Run
    <3>2. /\ o \in RequestStatus /\ ErrorOf(o) \in Errors
          /\ "reconciling" \in RequestStatus /\ "recording" \in Errors
      BY <3>1 DEF Outcomes, RequestStatus, Authorized, ErrorOf, Errors
    <3>3. \/ UNCHANGED requests
          \/ Complete(Req(e), o, o = "submitted", ErrorOf(o))
          \/ Complete(Req(e), "reconciling", TRUE, "recording")
      BY <2>5 DEF CompleteSend, RecordInDoubt
    <3> HIDE DEF o
    <3> QED
      BY <1>2, <2>4, <3>2, <3>3
  <2>6. AuthorizeNew(e) \/ AuthorizeExpires(e) \/ CompleteSend(e) \/ RecordInDoubt(e)
        \/ UNCHANGED requests
    BY <1>7 DEF Execution, ReserveAgain, ReserveNew, ReserveRefused, AuthorizeAgain,
                AuthorizeRefused, PostAccepted, PostRejected, PostAmbiguous, Recover,
                CallFails, Crash, store
  <2> QED
    BY <1>2, <2>2, <2>3, <2>5, <2>6
<1>8. ASSUME NEW ev \in events, Webhook(ev)  PROVE Withdrawn(r)'
  <2>1. CASE UNCHANGED requests
    BY <1>2, <2>1
  <2>2. CASE /\ requests' = Put(ev.req, "submitted", "none")
             /\ requests[ev.req].status \in {"sending", "reconciling"}
    <3>1. ev.req \in Requests
      BY DEF PacketInv, EventsSound, Event
    <3>2. "submitted" \in RequestStatus /\ "none" \in Errors
      BY DEF RequestStatus, Authorized, Errors
    <3> QED
      BY <1>3, <1>4, <2>2, <3>1, <3>2
  <2> QED
    BY <1>8, <2>1, <2>2 DEF Webhook, EventUnmatched, EventApplies, store
<1>9. CASE Time
  <2>1. ASSUME NEW q \in Requests, Lapse(q)  PROVE Withdrawn(r)'
    <3>1. CASE q = r
      BY <1>1, <2>1, <3>1 DEF Lapse, Request, Withdrawn
    <3>2. CASE q # r
      BY <1>1, <1>2, <2>1, <3>2 DEF Lapse
    <3> QED
      BY <3>1, <3>2
  <2> QED
    BY <1>2, <1>9, <2>1 DEF Time, WindowPasses, EventGrowsOld, store
<1>10. CASE Provider
  BY <1>2, <1>10 DEF Provider, ProviderAccepts, ProviderAcceptsLate, LosePost,
                     ProviderReports, store
<1>11. CASE UNCHANGED vars
  BY <1>2, <1>11 DEF vars
<1> QED
  BY <1>5, <1>6, <1>7, <1>8, <1>9, <1>10, <1>11 DEF Next

\* What was taken back, edited away or left waiting too long before it was authorised
\* is never mailed, whatever server functions had it in hand at that moment and
\* however they go on (loadStagedSend, reserve_packet_resend_admission,
\* authorize_meeting_packet_send and the provider's call are steps apart).
THEOREM WithdrawnIsNeverMailed == Spec => WithdrawnStaysUnsent
<1> SUFFICES ASSUME NEW r \in Requests
             PROVE  Spec => [](Withdrawn(r) => [](r \notin accepted))
  BY DEF WithdrawnStaysUnsent
<1>1. PacketInv /\ Withdrawn(r) => r \notin accepted
  BY DEF PacketInv, MailSound, Sent, Mailed, Withdrawn
<1>2. PacketInv /\ Withdrawn(r) /\ [Next]_vars => Withdrawn(r)'
  BY WithdrawnStays
<1> QED
  BY <1>1, <1>2, InvariantHolds, PTL DEF Spec

\* A share that shows what the provider reported changes only for an event
\* that is not stale.
LEMMA ShareChanges ==
  ASSUME PacketInv, Next, NEW r \in Requests,
         shares[r].status \notin {"none", "pending", "reconciling"}
  PROVE  \/ shares'[r] = shares[r]
         \/ \E ev \in events : /\ ev.req = r /\ ev.kind \in MailKinds /\ ~Stale(ev)
                               /\ shares'[r].status = ev.kind
<1>1. shares \in [Requests -> Share] /\ RecordSound
  BY DEF PacketInv, StoreSound, StoreTyped
<1>2. ASSUME NEW e \in Executors, AuthorizeNew(e)
      PROVE  shares'[r] = shares[r]
  <2>1. Req(e) \in Requests
    BY ReqIs DEF PacketInv
  <2>2. shares[Req(e)].status = "none"
    BY <1>1, <1>2, <2>1 DEF AuthorizeNew, Reservable, RecordSound, Agree, Unauthorized
  <2>3. r # Req(e)
    BY <2>2
  <2> QED
    BY <1>1, <1>2, <2>3 DEF AuthorizeNew
<1>3. ASSUME NEW e \in Executors, NEW o, NEW known, NEW error,
             Complete(Req(e), o, known, error)
      PROVE  shares'[r] = shares[r]
  <2>1. CASE UNCHANGED shares
    BY <2>1
  <2>2. CASE /\ Completable(Req(e), o, known, error)
             /\ shares' = [shares EXCEPT ![Req(e)].status = o,
                              ![Req(e)].known = known \/ shares[Req(e)].known]
    <3>1. r # Req(e)
      BY <2>2 DEF Completable
    <3> QED
      BY <1>1, <2>2, <3>1
  <2> QED
    BY <1>3, <2>1, <2>2 DEF Complete
<1>4. ASSUME NEW e \in Executors, Execution(e)
      PROVE  shares'[r] = shares[r]
  BY <1>2, <1>3, <1>4
     DEF Execution, ReserveAgain, ReserveNew, ReserveRefused, AuthorizeAgain,
         AuthorizeExpires, AuthorizeRefused, PostAccepted, PostRejected, PostAmbiguous,
         CompleteSend, RecordInDoubt, Recover, CallFails, Crash, store
<1>5. ASSUME NEW ev \in events, EventApplies(ev), shares'[r] # shares[r]
      PROVE  /\ ev.req = r /\ ev.kind \in MailKinds /\ ~Stale(ev)
             /\ shares'[r].status = ev.kind
  <2>1. ev \in Event
    BY DEF PacketInv, EventsSound
  <2>2. /\ ~Stale(ev)
        /\ shares' = [shares EXCEPT ![ev.req].status = ev.kind, ![ev.req].last = ev.at]
    BY <1>5 DEF EventApplies
  <2>3. ev.req = r
    BY <1>1, <1>5, <2>2
  <2>4. shares[r] \in Share
    BY <1>1
  <2> QED
    BY <1>1, <2>1, <2>2, <2>3, <2>4 DEF Event, Share
<1>6. CASE Host
  BY <1>6 DEF Host, Prepare, Approve, UpdateDraft, StageSend, CancelSend
<1>7. CASE Time
  BY <1>7 DEF Time, Lapse, WindowPasses, EventGrowsOld, store
<1>8. CASE Provider
  BY <1>8 DEF Provider, ProviderAccepts, ProviderAcceptsLate, LosePost, ProviderReports,
              store
<1>9. CASE \E e \in Executors, q \in Requests, mode \in Modes : BeginExecute(e, q, mode)
  BY <1>9 DEF BeginExecute, store
<1>10. CASE \E ev \in events : EventUnmatched(ev)
  BY <1>10 DEF EventUnmatched, store
<1> QED
  BY <1>4, <1>5, <1>6, <1>7, <1>8, <1>9, <1>10 DEF Next, Webhook

\* A reported delivery is never taken back, by a late event or by an executor
\* that records its own outcome late, and a bounce or complaint is final.
THEOREM DeliveryStays == Spec => DeliveryNeverRegresses
<1>1. ASSUME PacketInv, Next, NEW r \in Requests
      PROVE  LET was == shares[r].status
                 is == shares'[r].status
             IN /\ was = "delivered" => is \in {"delivered"} \cup Adverse
                /\ was \in Adverse => is \in Adverse
  <2> SUFFICES ASSUME shares[r].status \in {"delivered"} \cup Adverse,
                      shares'[r] # shares[r]
               PROVE  /\ shares'[r].status \in {"delivered"} \cup Adverse
                      /\ shares[r].status \in Adverse => shares'[r].status \in Adverse
    BY DEF Adverse
  <2>1. shares[r].status \notin {"none", "pending", "reconciling"}
    BY DEF Adverse
  <2>2. PICK ev \in events : /\ ev.req = r /\ ev.kind \in MailKinds /\ ~Stale(ev)
                             /\ shares'[r].status = ev.kind
    BY <1>1, <2>1, ShareChanges
  <2> QED
    BY <2>2 DEF Stale, MailKinds, Adverse
<1>2. PacketInv /\ [Next]_vars =>
        [\A r \in Requests :
           LET was == shares[r].status
               is == shares'[r].status
           IN /\ was = "delivered" => is \in {"delivered"} \cup Adverse
              /\ was \in Adverse => is \in Adverse]_vars
  BY <1>1
<1> QED
  BY <1>2, InvariantHolds, PTL DEF Spec, DeliveryNeverRegresses

LEMMA TakenIsNotOver ==
  ASSUME PacketInv, ~FickleProvider, NEW r \in accepted
  PROVE  r \in Requests /\ requests[r].status \notin Finished \cup {"none"}
<1>1. r \in Sent /\ r \notin refused
  BY DEF PacketInv, MailSound
<1>2. requests[r].status # "failed"
  BY <1>1 DEF PacketInv, StoreSound, RecordSound, Sent
<1> QED
  BY <1>1, <1>2 DEF Sent, Mailed, Finished

\* With a provider whose verdict on an idempotency key is stable, a send that
\* is over, so that its snapshot may be staged again, was never mailed.
THEOREM FinishedStaysUnsent ==
  ASSUME ~FickleProvider
  PROVE  Spec => []FinishedIsUnsent
<1>1. PacketInv => FinishedIsUnsent
  BY TakenIsNotOver DEF FinishedIsUnsent
<1> QED
  BY <1>1, InvariantHolds, PTL

\* With such a provider, the record of every mail is true.
THEOREM RecordStaysTrue ==
  ASSUME ~FickleProvider
  PROVE  Spec => []RecordIsTrue
<1> QED
  BY FinishedStaysUnsent, SubmittedStaysTrue, PTL DEF RecordIsTrue

\* With such a provider, one approved snapshot is mailed at most once, however
\* often it is staged, executed, retried or lost.
THEOREM AtMostOneEmail ==
  ASSUME ~FickleProvider
  PROVE  Spec => []OneEmailPerApproval
<1>1. PacketInv => OneEmailPerApproval
  BY TakenIsNotOver DEF PacketInv, StoreSound, OneActive, OneEmailPerApproval
<1> QED
  BY <1>1, InvariantHolds, PTL

\* With such a provider, the host is told only what is so.
THEOREM ReportsStayHonest ==
  ASSUME ~FickleProvider
  PROVE  Spec => []ReportsAreHonest
<1>1. PacketInv => ReportsAreHonest
  <2> SUFFICES ASSUME PacketInv, NEW e \in Executors
               PROVE  /\ runs[e].report = "submitted" => Req(e) \in accepted
                      /\ runs[e].report \in {"failed", "preview_only"} => Req(e) \notin accepted
    BY DEF ReportsAreHonest
  <2>1. RunSound(runs[e], Sent, accepted, refused, Shown)
    BY DEF PacketInv, RunsSound
  <2>2. \A r \in Shown : r \notin accepted
    BY TakenIsNotOver DEF Shown, Finished
  <2>3. \A r \in refused : r \notin accepted
    BY DEF PacketInv, MailSound
  <2> QED
    BY <2>1, <2>2, <2>3 DEF RunSound, Req
<1> QED
  BY <1>1, InvariantHolds, PTL

-----------------------------------------------------------------------------
(* What is told of a mail.                                                 *)

\* A mail is taken, then delivered or bounced, and a delivery may be complained of.
Place(kind) == IF kind = "submitted" THEN 1 ELSE IF kind = "complained" THEN 3 ELSE 2

Numbered ==
  /\ \A ev \in events : ev.at = Place(ev.kind)
  /\ \A ev, other \in events : ev.req = other.req /\ ev.at = other.at => ev = other

\* A share that follows the events shows the event it names, and whatever was
\* settled is no newer.
Follows(r, s, evs) ==
  /\ s.last # 0 => \E ev \in evs : ev.req = r /\ ev.at = s.last /\ ev.kind = s.status
  /\ s.status \in {"delivered"} \cup Adverse => s.last # 0
  /\ \A ev \in evs : ev.req = r /\ ev.seen = "settled" => ev.at =< s.last

Told == Numbered /\ \A r \in Requests : Follows(r, shares[r], events)

\* Nothing but an event gives a share a number, or a status only an event can give.
LEMMA ShareSteps ==
  ASSUME PacketInv, Next, NEW r \in Requests
  PROVE  \/ shares'[r] = shares[r]
         \/ /\ shares[r].status \in {"none", "pending", "reconciling"}
            /\ shares'[r].last = shares[r].last
            /\ shares'[r].status \notin {"delivered"} \cup Adverse
         \/ \E ev \in events : EventApplies(ev)
<1>1. shares \in [Requests -> Share] /\ RecordSound /\ RunsSound
  BY DEF PacketInv, StoreSound, StoreTyped
<1>2. ASSUME NEW e \in Executors, AuthorizeNew(e), shares'[r] # shares[r]
      PROVE  /\ shares[r].status = "none" /\ shares'[r].last = shares[r].last
             /\ shares'[r].status \in {"pending", "preview_only"}
  <2>1. Req(e) \in Requests
    BY ReqIs DEF PacketInv
  <2>2. shares[Req(e)].status = "none"
    BY <1>1, <1>2, <2>1 DEF AuthorizeNew, Reservable, RecordSound, Agree, Unauthorized
  <2>3. r = Req(e)
    BY <1>1, <1>2, <2>1 DEF AuthorizeNew
  <2>4. shares[r] \in Share
    BY <1>1
  <2> QED
    BY <1>1, <1>2, <2>2, <2>3, <2>4 DEF AuthorizeNew, Share
<1>3. ASSUME NEW e \in Executors, NEW o \in Outcomes, NEW known, NEW error,
             Complete(Req(e), o, known, error), shares'[r] # shares[r]
      PROVE  /\ shares[r].status \in {"pending", "reconciling"}
             /\ shares'[r].last = shares[r].last
             /\ shares'[r].status \in Outcomes
  <2>1. /\ Completable(Req(e), o, known, error)
        /\ shares' = [shares EXCEPT ![Req(e)].status = o,
                         ![Req(e)].known = known \/ shares[Req(e)].known]
    BY <1>3 DEF Complete
  <2>2. r = Req(e)
    BY <1>1, <1>3, <2>1
  <2>3. shares[r] \in Share
    BY <1>1
  <2> QED
    BY <1>1, <2>1, <2>2, <2>3 DEF Completable, Share
<1>4. ASSUME NEW e \in Executors, Execution(e), shares'[r] # shares[r]
      PROVE  /\ shares[r].status \in {"none", "pending", "reconciling"}
             /\ shares'[r].last = shares[r].last
             /\ shares'[r].status \notin {"delivered"} \cup Adverse
  <2>1. runs[e].outcome \in Outcomes /\ "reconciling" \in Outcomes
    BY <1>1 DEF RunsSound, Run, Outcomes
  <2>2. \/ AuthorizeNew(e)
        \/ \E o \in Outcomes : \E known, error : Complete(Req(e), o, known, error)
    BY <1>4, <2>1
       DEF Execution, ReserveAgain, ReserveNew, ReserveRefused, AuthorizeAgain,
           AuthorizeExpires, AuthorizeRefused, PostAccepted, PostRejected, PostAmbiguous,
           CompleteSend, RecordInDoubt, Recover, CallFails, Crash, store
  <2> QED
    BY <1>2, <1>3, <1>4, <2>2 DEF Outcomes, Adverse
<1>5. CASE Host
  BY <1>5 DEF Host, Prepare, Approve, UpdateDraft, StageSend, CancelSend
<1>6. CASE Time
  BY <1>6 DEF Time, Lapse, WindowPasses, EventGrowsOld, store
<1>7. CASE Provider
  BY <1>7 DEF Provider, ProviderAccepts, ProviderAcceptsLate, LosePost, ProviderReports,
              store
<1>8. CASE \E e \in Executors, q \in Requests, mode \in Modes : BeginExecute(e, q, mode)
  BY <1>8 DEF BeginExecute, store
<1>9. CASE \E ev \in events : EventUnmatched(ev)
  BY <1>9 DEF EventUnmatched, store
<1> QED
  BY <1>4, <1>5, <1>6, <1>7, <1>8, <1>9 DEF Next, Webhook

\* The events change in three ways.
LEMMA EventSteps ==
  ASSUME Next
  PROVE  \/ UNCHANGED events
         \/ UNCHANGED shares /\ \E r \in Requests, kind \in MailKinds : ProviderReports(r, kind)
         \/ UNCHANGED shares /\ \E ev \in events, seen \in {"unmatched", "late", "ignored"} : Mark(ev, seen)
         \/ \E ev \in events : EventApplies(ev)
<1>1. ASSUME NEW e \in Executors, Execution(e)
      PROVE  UNCHANGED events
  BY <1>1 DEF Execution, ReserveAgain, ReserveNew, ReserveRefused, AuthorizeNew, AuthorizeAgain,
              AuthorizeExpires, AuthorizeRefused, PostAccepted, PostRejected, PostAmbiguous,
              CompleteSend, RecordInDoubt, Recover, CallFails, Crash
<1>2. CASE Host
  BY <1>2 DEF Host, Prepare, Approve, UpdateDraft, StageSend, CancelSend
<1>3. CASE Time
  BY <1>3 DEF Time, Lapse, WindowPasses, EventGrowsOld, store
<1>4. CASE Provider
  BY <1>4 DEF Provider, ProviderAccepts, ProviderAcceptsLate, LosePost, ProviderReports, store
<1>5. CASE \E e \in Executors, q \in Requests, mode \in Modes : BeginExecute(e, q, mode)
  BY <1>5 DEF BeginExecute
<1>6. ASSUME NEW ev \in events, EventUnmatched(ev)
      PROVE  UNCHANGED shares /\ \E seen \in {"unmatched", "ignored"} : Mark(ev, seen)
  BY <1>6 DEF EventUnmatched, store
<1> QED
  BY <1>1, <1>2, <1>3, <1>4, <1>5, <1>6 DEF Next, Webhook

\* A marked event is the same event, seen otherwise.
LEMMA MarkIs ==
  ASSUME EventsSound, NEW ev \in events, NEW seen, Mark(ev, seen)
  PROVE  \E x : /\ events' = (events \ {ev}) \cup {x}
                /\ x.req = ev.req /\ x.at = ev.at /\ x.kind = ev.kind /\ x.seen = seen
<1>1. ev \in Event
  BY DEF EventsSound
<1>2. PICK x : x = [ev EXCEPT !.seen = seen]
  OBVIOUS
<1>3. x.req = ev.req /\ x.at = ev.at /\ x.kind = ev.kind /\ x.seen = seen
  BY <1>1, <1>2 DEF Event
<1> QED
  BY <1>2, <1>3 DEF Mark

LEMMA MarkNumbered ==
  ASSUME EventsSound, Numbered, NEW ev \in events, NEW seen, Mark(ev, seen)
  PROVE  Numbered'
<1>1. PICK x : /\ events' = (events \ {ev}) \cup {x}
               /\ x.req = ev.req /\ x.at = ev.at /\ x.kind = ev.kind /\ x.seen = seen
  BY MarkIs
<1> QED
  BY <1>1 DEF Numbered

\* A new event comes after all the provider has reported of its mail.
LEMMA ReportNumbered ==
  ASSUME EventsSound, Numbered, NEW r \in Requests, NEW kind \in MailKinds,
         ProviderReports(r, kind)
  PROVE  \E x : /\ events' = events \cup {x} /\ x.seen = "new" /\ x.at = Place(kind)
                /\ Numbered'
<1>1. PICK x : x = [req |-> r, at |-> Cardinality(EventsOf(r)) + 1, kind |-> kind, seen |-> "new"]
  OBVIOUS
<1>2. /\ events' = events \cup {x} /\ Reportable(r, kind)
      /\ x.req = r /\ x.kind = kind /\ x.seen = "new" /\ x.at = Cardinality(EventsOf(r)) + 1
  BY <1>1 DEF ProviderReports
<1>3. /\ \A ev \in EventsOf(r) : ev \in events /\ ev.req = r /\ ev.at = Place(ev.kind)
      /\ \A ev \in events : ev.req = r => ev \in EventsOf(r)
      /\ \A ev, other \in EventsOf(r) : ev.kind = other.kind => ev = other
  BY DEF EventsOf, Numbered
<1>4. /\ \A k \in KindsOf(r) : \E ev \in EventsOf(r) : ev.kind = k
      /\ \A ev \in EventsOf(r) : ev.kind \in KindsOf(r)
  BY DEF KindsOf
<1>5. /\ Cardinality(EventsOf(r)) + 1 = Place(kind)
      /\ \A ev \in EventsOf(r) : ev.at # Place(kind)
  <2>1. CASE kind = "submitted"
    <3>1. EventsOf(r) = {}
      BY <1>2, <1>4, <2>1 DEF Reportable
    <3> QED
      BY <2>1, <3>1, FS_EmptySet DEF Place
  <2>2. CASE kind \in {"delivered", "bounced"}
    <3>1. KindsOf(r) = {"submitted"}
      BY <1>2, <2>2 DEF Reportable
    <3>2. PICK a : EventsOf(r) = {a} /\ a.kind = "submitted"
      BY <1>3, <1>4, <3>1
    <3>3. Cardinality({a}) = 1
      BY FS_Singleton
    <3> QED
      BY <1>3, <2>2, <3>2, <3>3 DEF Place
  <2>3. CASE kind = "complained"
    <3>1. KindsOf(r) = {"submitted", "delivered"}
      BY <1>2, <2>3 DEF Reportable
    <3>2. PICK a, b \in EventsOf(r) : a.kind = "submitted" /\ b.kind = "delivered"
      BY <1>4, <3>1
    <3>3. EventsOf(r) = {a, b} /\ a # b
      BY <1>3, <1>4, <3>1, <3>2
    <3>4. Cardinality({a, b}) = 2
      <4>1. Cardinality({a}) = 1 /\ IsFiniteSet({a})
        BY FS_Singleton
      <4>2. b \notin {a} /\ {a, b} = {a} \cup {b}
        BY <3>3
      <4>3. Cardinality({a} \cup {b}) = Cardinality({a}) + 1
        BY <4>1, <4>2, FS_AddElement
      <4> QED
        BY <4>1, <4>2, <4>3
    <3> QED
      BY <1>3, <2>3, <3>2, <3>3, <3>4 DEF Place
  <2> QED
    BY <2>1, <2>2, <2>3 DEF MailKinds, Adverse
<1>6. Numbered'
  BY <1>2, <1>3, <1>5 DEF Numbered
<1> QED
  BY <1>2, <1>5, <1>6

\* A share follows the event that was just settled for it.
LEMMA AppliesTold ==
  ASSUME PacketInv, Told, NEW ev \in events, EventApplies(ev)
  PROVE  Told'
<1>1. EventsSound /\ Numbered
  BY DEF PacketInv, Told
<1>2. PICK x : /\ events' = (events \ {ev}) \cup {x}
               /\ x.req = ev.req /\ x.at = ev.at /\ x.kind = ev.kind /\ x.seen = "settled"
  BY <1>1, MarkIs DEF EventApplies
<1>3. Numbered'
  BY <1>1, MarkNumbered DEF EventApplies
<1>4. PICK q \in Requests : q = ev.req
  BY <1>1 DEF EventsSound, Event
<1>5. /\ shares \in [Requests -> Share] /\ shares[q] \in Share /\ shares[q].known
      /\ Agree(requests[q].status, shares[q]) /\ requests[q].status \in RequestStatus
      /\ ev.at \in Nat /\ shares[q].last \in Nat /\ ev.kind \in MailKinds
  <2>1. shares[q] \in Share /\ requests[q] \in Request /\ ev \in Event
    BY <1>1 DEF PacketInv, StoreSound, StoreTyped, EventsSound
  <2>2. shares[q].last \in Nat /\ ev.at \in Nat
    BY <2>1, BoundsAssumption DEF BoundsAssumption, Share, Event
  <2> QED
    BY <1>4, <2>1, <2>2 DEF PacketInv, StoreSound, StoreTyped, RecordSound, EventApplies,
                            Matched, Request, Event
<1>6. /\ ev.at = Place(ev.kind)
      /\ Follows(q, shares[q], events)
  BY <1>1 DEF Numbered, Told
<1>7. CASE Stale(ev) /\ UNCHANGED shares
  <2>1. ev.at =< shares[q].last
    <3>1. shares[q].status # "failed" /\ shares[q].status # "preview_only" /\ shares[q].status # "none"
      BY <1>5 DEF Agree, RequestStatus, Authorized, Finished, Unauthorized, Mailed, MailKinds, Adverse
    <3>2. CASE shares[q].status \in Adverse
      <4>1. PICK last \in events : /\ last.req = q /\ last.at = shares[q].last
                                  /\ last.kind = shares[q].status
        BY <1>6, <3>2 DEF Follows
      <4>2. last.at = Place(last.kind)
        BY <1>1 DEF Numbered
      <4>3. ev.at =< shares[q].last \/ ev.kind \in {"submitted", "delivered"}
        BY <1>4, <1>5, <1>7 DEF Stale, MailKinds, Adverse
      <4>4. shares[q].last \in {2, 3}
        BY <3>2, <4>1, <4>2 DEF Place, Adverse
      <4>5. ev.kind \in {"submitted", "delivered"} => ev.at \in {1, 2}
        BY <1>6 DEF Place
      <4> QED
        BY <4>3, <4>4, <4>5
    <3>3. CASE shares[q].status = "delivered" /\ ev.kind = "submitted"
      <4>1. shares[q].last # 0
        BY <1>6, <3>3 DEF Follows
      <4> QED
        BY <1>5, <1>6, <3>3, <4>1 DEF Place
    <3> QED
      BY <1>4, <1>5, <1>7, <3>1, <3>2, <3>3
         DEF Stale, Share, ShareStatus, MailKinds, Adverse
  <2>2. ASSUME NEW r \in Requests  PROVE Follows(r, shares[r], events')
    <3>1. Follows(r, shares[r], events)
      BY DEF Told
    <3> QED
      BY <1>2, <1>4, <2>1, <3>1 DEF Follows
  <2> QED
    BY <1>3, <1>7, <2>2 DEF Told
<1>8. CASE /\ ~Stale(ev)
           /\ shares' = [shares EXCEPT ![q].status = ev.kind, ![q].last = ev.at]
  <2>1. shares[q].last < ev.at
    BY <1>4, <1>5, <1>8 DEF Stale
  <2>2. shares'[q].status = ev.kind /\ shares'[q].last = ev.at
    BY <1>5, <1>8 DEF Share
  <2>3. ev.at # 0
    BY <1>6 DEF Place
  <2>4. Follows(q, shares'[q], events')
    <3>1. ASSUME NEW other \in events', other.req = q, other.seen = "settled"
          PROVE  other.at =< ev.at
      <4>1. CASE other = x
        BY <1>2, <1>5, <4>1
      <4>2. CASE other # x
        <5>1. other \in events
          BY <1>2, <4>2
        <5>2. other.at =< shares[q].last /\ other.at \in Nat
          <6>1. other \in Event
            BY <1>1, <5>1 DEF EventsSound
          <6> QED
            BY <1>6, <3>1, <5>1, <6>1, BoundsAssumption DEF BoundsAssumption, Follows, Event
        <5> QED
          BY <1>5, <2>1, <5>2
      <4> QED
        BY <4>1, <4>2
    <3>2. x \in events' /\ x.req = q /\ x.at = ev.at /\ x.kind = ev.kind
      BY <1>2, <1>4
    <3> QED
      BY <2>2, <2>3, <3>1, <3>2 DEF Follows
  <2>5. ASSUME NEW r \in Requests, r # q  PROVE Follows(r, shares'[r], events')
    <3>1. shares'[r] = shares[r] /\ Follows(r, shares[r], events)
      BY <1>5, <1>8, <2>5 DEF Told
    <3> QED
      BY <1>2, <1>4, <2>5, <3>1 DEF Follows
  <2> QED
    BY <1>3, <2>4, <2>5 DEF Told
<1> QED
  BY <1>4, <1>7, <1>8 DEF EventApplies

LEMMA ToldStep ==
  ASSUME PacketInv, Told, [Next]_vars
  PROVE  Told'
<1>1. EventsSound /\ Numbered
  BY DEF PacketInv, Told
<1>2. CASE UNCHANGED vars
  BY <1>2 DEF vars, Told, Numbered
<1>3. CASE \E ev \in events : EventApplies(ev)
  BY <1>3, AppliesTold
<1>4. CASE /\ UNCHANGED events
           /\ \A r \in Requests :
                \/ shares'[r] = shares[r]
                \/ /\ shares[r].status \in {"none", "pending", "reconciling"}
                   /\ shares'[r].last = shares[r].last
                   /\ shares'[r].status \notin {"delivered"} \cup Adverse
  <2>1. Numbered'
    BY <1>1, <1>4 DEF Numbered
  <2>2. ASSUME NEW r \in Requests  PROVE Follows(r, shares'[r], events)
    <3>1. Follows(r, shares[r], events)
      BY DEF Told
    <3>2. CASE shares[r].status \in {"none", "pending", "reconciling"}
      <4>1. shares[r].last = 0
        <5>1. \A ev \in events : ev.kind \in MailKinds
          BY <1>1 DEF EventsSound, Event
        <5> QED
          BY <3>1, <3>2, <5>1 DEF Follows, MailKinds, Adverse
      <4> QED
        BY <1>4, <3>1, <4>1 DEF Follows
    <3> QED
      BY <1>4, <3>1, <3>2
  <2> QED
    BY <1>4, <2>1, <2>2 DEF Told
<1>5. CASE UNCHANGED shares /\ \E r \in Requests, kind \in MailKinds : ProviderReports(r, kind)
  <2>1. PICK x : events' = events \cup {x} /\ x.seen = "new" /\ Numbered'
    BY <1>1, <1>5, ReportNumbered
  <2>2. ASSUME NEW r \in Requests  PROVE Follows(r, shares[r], events')
    BY <2>1 DEF Told, Follows
  <2> QED
    BY <1>5, <2>1, <2>2 DEF Told
<1>6. CASE /\ UNCHANGED shares
           /\ \E ev \in events, seen \in {"unmatched", "late", "ignored"} : Mark(ev, seen)
  <2>1. PICK ev \in events, seen \in {"unmatched", "late", "ignored"} : Mark(ev, seen)
    BY <1>6
  <2>2. PICK x : /\ events' = (events \ {ev}) \cup {x}
                 /\ x.req = ev.req /\ x.at = ev.at /\ x.kind = ev.kind /\ x.seen = seen
    BY <1>1, <2>1, MarkIs
  <2>3. Numbered'
    BY <1>1, <2>1, MarkNumbered
  <2>4. ASSUME NEW r \in Requests  PROVE Follows(r, shares[r], events')
    <3>1. Follows(r, shares[r], events)
      BY DEF Told
    <3> QED
      BY <2>2, <3>1 DEF Follows
  <2> QED
    BY <1>6, <2>3, <2>4 DEF Told
<1> QED
  BY <1>2, <1>3, <1>4, <1>5, <1>6, ShareSteps, EventSteps

\* Once all the provider has reported of a mail is settled, its share shows the newest
\* of it, in whatever order and however late the events came
\* (apply_resend_delivery_event).
THEOREM NewestAlwaysShows == Spec => []NewestEventShows
<1>1. Init => Told
  <2> SUFFICES ASSUME Init  PROVE Told
    OBVIOUS
  <2>1. events = {} /\ \A r \in Requests : shares[r].last = 0 /\ shares[r].status = "none"
    BY DEF Init, NoShare
  <2> QED
    BY <2>1 DEF Told, Numbered, Follows, Adverse
<1>2. PacketInv /\ Told /\ [Next]_vars => Told'
  BY ToldStep
<1>3. ASSUME PacketInv, Told  PROVE NewestEventShows
  <2> SUFFICES ASSUME NEW r \in Requests, EventsOf(r) # {},
                      \A ev \in EventsOf(r) : ev.seen = "settled"
               PROVE  \E ev \in EventsOf(r) : /\ \A other \in EventsOf(r) : other.at <= ev.at
                                              /\ shares[r].status = ev.kind
    BY DEF NewestEventShows
  <2>1. /\ \A ev \in EventsOf(r) : ev \in events /\ ev.req = r /\ ev.at = Place(ev.kind)
        /\ \A ev \in events : ev.req = r => ev \in EventsOf(r)
        /\ Follows(r, shares[r], events)
    BY <1>3 DEF EventsOf, Told, Numbered
  <2>2. \A ev \in EventsOf(r) : ev.at =< shares[r].last
    BY <2>1 DEF Follows
  <2>3. shares[r].last # 0
    BY <2>1, <2>2 DEF Place
  <2>4. PICK ev \in EventsOf(r) : ev.at = shares[r].last /\ ev.kind = shares[r].status
    BY <2>1, <2>3 DEF Follows
  <2> QED
    BY <2>2, <2>4
<1> QED
  BY <1>1, <1>2, <1>3, InvariantHolds, PTL DEF Spec
=============================================================================
