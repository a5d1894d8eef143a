-------------------------- MODULE ChangeEventsProofs --------------------------
(***************************************************************************)
(* What the stream holds is well formed, true of its system and one event  *)
(* per mutation, for any number of mutations that race with each other and *)
(* with the announcements, and however the broker delays or repeats them;  *)
(* and when nothing fails, every system's current version is among the     *)
(* events. Truth and coverage assume that no slug is spelled like an `_id`.*)
(* The proofs rest on HistoryProofs, since a fact about a version  *)
(* that an event states stays a fact, and on EditorialProofs, which says   *)
(* what a request holds while it moves the pointer.                        *)
(***************************************************************************)
EXTENDS ChangeEventsProperties, EditorialProofs

-----------------------------------------------------------------------------
(* The workflow under the announcements.                                    *)

(* Every step of EventNext is a step of the workflow or leaves it alone.    *)
LEMMA WorkflowStep ==
  ASSUME [EventNext]_eventVars
  PROVE  [Next]_vars
  <1> USE DEF Proceed
  <1>1. CASE UNCHANGED eventVars
    BY <1>1 DEF eventVars
  <1>2. ASSUME NEW q \in Requests, Workflow(q) \/ Handle(q)
        PROVE  Next
    BY <1>2 DEF Workflow, Handle, Next
  <1>3. ASSUME NEW q \in Requests, Announce(q) \/ ConfirmFails(q) \/ Drop(q)
        PROVE  UNCHANGED vars
    BY <1>3 DEF Announce, Confirm, LoadMeta, LoadVersion, Publish, Acknowledged,
                GiveUp, ConfirmFails, Drop
  <1>4. ASSUME NEW e \in wire, Deliver(e) \/ Lose(e)
        PROVE  UNCHANGED vars
    BY <1>4 DEF Deliver, Lose
  <1> QED
    BY <1>1, <1>2, <1>3, <1>4 DEF EventNext, eventVars

(* Announcing never disturbs the mutations: all that is proved of the       *)
(* workflow alone holds with the announcements running beside it.           *)
THEOREM WorkflowUndisturbed == EventSpec => Spec
  <1>1. EventInit => Init
    BY DEF EventInit
  <1>2. [EventNext]_eventVars => [Next]_vars
    BY WorkflowStep
  <1> QED
    BY <1>1, <1>2, PTL DEF EventSpec, Spec

WorkflowInv == TypeOK /\ NextKnown /\ HistoryInv

LEMMA WorkflowInit ==
  ASSUME IdsApart
  PROVE  Init => WorkflowInv
  BY InitType, InitHistory DEF Init, WorkflowInv, NextKnown, NumberedSteps

(* What a reader has found stays: Grows, and first versions are published.  *)
FirstPublished ==
    \A r : VersionsOf(r) = {} => VersionsOf(r)' = {} \/ IsPublished(r, 1)'

LEMMA WorkflowKept ==
  ASSUME WorkflowInv, [Next]_vars
  PROVE  WorkflowInv' /\ Grows /\ FirstPublished
  <1>1. WorkflowInv'
    BY NextType, NextKnownStep, HistoryStep DEF WorkflowInv
  <1>2. CASE UNCHANGED vars
    BY <1>1, <1>2, ReadKeeps DEF vars, WorkflowInv, HistoryInv, AddsOnly,
                                 FirstPublished
  <1>3. ASSUME NEW q \in Requests, Arrive(q) \/ Serve(q) \/ Abort(q)
        PROVE  Grows /\ FirstPublished
    <2>1. Kept(q)
      BY <1>3, RequestKeeps DEF WorkflowInv
    <2> QED
      BY <2>1 DEF Kept, AddsOnly, FirstPublished
  <1> QED
    BY <1>1, <1>2, <1>3 DEF Next

-----------------------------------------------------------------------------
(* Types.                                                                   *)

LEMMA ServedInFlight ==
  ASSUME NEW q \in Requests, Serve(q)
  PROVE  pc[q] \in Steps
  BY DEF Steps, CreateSteps, PatchSteps, AcceptSteps, RejectSteps, RetractSteps,
         CurrentSteps, Serve, CreateInsertMeta, CreateInsertVersion, PatchResolve,
         PatchRead, PatchBase, PatchNumber, PatchInsert, AcceptLoad, AcceptDecide,
         AcceptPromote, AcceptNumber, AcceptInsert, AcceptClose, RejectLoad,
         RejectMark, RetractLoad, RetractMark, SetCurrentResolve, SetCurrentRead,
         SetCurrentRestore, ArchiveCurrent, AfterArchive, PointMeta

LEMMA StepsNotDone == "done" \notin Steps
  BY DEF Steps, CreateSteps, PatchSteps, AcceptSteps, RejectSteps, RetractSteps,
         CurrentSteps

(* Once answered, always answered.                                          *)
LEMMA AnsweredStays ==
  ASSUME TypeOK, NEW q \in Requests, Arrive(q) \/ Serve(q) \/ Abort(q),
         NEW p \in Requests, pc[p] = "done"
  PROVE  pc'[p] = "done" /\ p # q
  <1>1. pc[q] # "done"
    <2>1. CASE Arrive(q)
      BY <2>1 DEF Arrive, StartCreate, StartPatch, StartAccept, StartReject,
                  StartRetract, StartSetCurrent, Start
    <2>2. CASE Serve(q)
      BY <2>2, ServedInFlight, StepsNotDone
    <2>3. CASE Abort(q)
      BY <2>3, StepsNotDone DEF Abort
    <2> QED
      BY <2>1, <2>2, <2>3
  <1> QED
    BY <1>1, OthersStay DEF TypeOK

LEMMA LetterType ==
  ASSUME NEW q \in Requests, NEW entity \in SystemIds,
         NEW action \in {"created", "updated"}
  PROVE  Letter(q, entity, action) \in Event
  <1>1. Blank[Title] \in Values
    BY SeedAssumption, EventAssumption DEF Content
  <1> QED
    BY <1>1 DEF Letter, Event, ObjectIds, NoVersion

(* What a handler that announces puts into entity_id names a system.        *)
LEMMA LetterheadType ==
  ASSUME TypeOK, NEW q \in Requests, Serve(q), Announces(job[q])
  PROVE  Letterhead(q) \in Event
  <1>1. CASE job[q].op = "create"
    <2>1. MetaId(q) \in SystemIds
      BY DEF SystemIds, ObjectIds
    <2> QED
      BY <1>1, <2>1, LetterType DEF Letterhead
  <1>2. CASE job[q].op # "create"
    <2>1. job[q] \notin CreateJob
      BY <1>2 DEF CreateJob
    <2>2. \/ job[q] \in PatchJob \cup AcceptJob \cup RejectJob
          \/ job[q] \in RetractJob \cup CurrentJob
      BY <2>1, ServedInFlight, JobOfStep DEF TypeOK, Steps
    <2>3. job[q].id \in SystemIds
      BY <2>2, WorkflowAssumption
      DEF PatchJob, AcceptJob, RejectJob, RetractJob, CurrentJob
    <2> QED
      BY <1>2, <2>3, LetterType DEF Letterhead
  <1> QED
    BY <1>1, <1>2

LEMMA EventInitType == EventInit => EventTypeOK
  <1> SUFFICES ASSUME EventInit PROVE EventTypeOK
    OBVIOUS
  <1>1. MetaId(Seed) \in SystemIds
    BY DEF SystemIds, ObjectIds
  <1>2. letter \in [Requests -> Event]
    BY <1>1, LetterType DEF EventInit
  <1>3. /\ notice \in [Requests -> Notice]
        /\ \A q \in Requests : notice[q] # "none" => pc[q] = "done"
    BY DEF EventInit, Notice
  <1>4. wire \subseteq Event /\ stream \in Seq(Event)
    BY DEF EventInit
  <1> QED
    BY <1>2, <1>3, <1>4, EventAssumption DEF EventInit, EventTypeOK

(* A step of the workflow; its end may write the letterhead.                *)
LEMMA WorkflowEventType ==
  ASSUME TypeOK, EventTypeOK, NEW q \in Requests, Workflow(q) \/ Handle(q)
  PROVE  EventTypeOK'
  <1>1. Arrive(q) \/ Serve(q) \/ Abort(q)
    BY DEF Workflow, Handle
  <1>2. UNCHANGED <<channel, counts>>
    BY DEF Workflow, Handle
  <1>3. /\ notice' \in [Requests -> Notice] /\ letter' \in [Requests -> Event]
        /\ \A p \in Requests : notice'[p] # "none" => pc'[p] = "done"
    <2>1. CASE UNCHANGED <<notice, letter>>
      BY <1>1, <2>1, AnsweredStays DEF EventTypeOK
    <2>2. CASE Handle(q) /\ pc'[q] = "done" /\ Announces(job[q])
      <3>1. Letterhead(q) \in Event
        BY <2>2, LetterheadType DEF Handle
      <3>2. FirstNotice(job[q]) \in Notice
        BY DEF FirstNotice, Notice, Announcing
      <3>3. /\ notice' = [notice EXCEPT ![q] = FirstNotice(job[q])]
            /\ letter' = [letter EXCEPT ![q] = Letterhead(q)]
        BY <2>2 DEF Handle
      <3>4. notice' \in [Requests -> Notice] /\ letter' \in [Requests -> Event]
        BY <3>1, <3>2, <3>3 DEF EventTypeOK
      <3>5. ASSUME NEW p \in Requests, notice'[p] # "none"
            PROVE  pc'[p] = "done"
        BY <1>1, <2>2, <3>3, <3>5, AnsweredStays DEF EventTypeOK
      <3> QED
        BY <3>4, <3>5
    <2> QED
      BY <2>1, <2>2 DEF Workflow, Handle
  <1> QED
    BY <1>2, <1>3 DEF EventTypeOK, channel, counts

LEMMA AnnounceType ==
  ASSUME TypeOK, EventTypeOK, NEW q \in Requests,
         Announce(q) \/ ConfirmFails(q) \/ Drop(q)
  PROVE  EventTypeOK'
  <1> USE DEF Proceed, channel, counts
  <1>1. notice[q] \in Announcing /\ pc[q] = "done"
    BY DEF Announce, Confirm, LoadMeta, LoadVersion, Publish, Acknowledged,
           GiveUp, ConfirmFails, Drop, EventTypeOK, Announcing
  <1>2. pc' = pc
    BY DEF Announce, Confirm, LoadMeta, LoadVersion, Publish, Acknowledged,
           GiveUp, ConfirmFails, Drop, vars, control
  <1>3. \E step \in Notice : notice' = [notice EXCEPT ![q] = step]
    BY DEF Announce, Confirm, LoadMeta, LoadVersion, Publish, Acknowledged,
           GiveUp, ConfirmFails, Drop, Notice, Announcing
  <1>4. /\ notice' \in [Requests -> Notice]
        /\ \A p \in Requests : notice'[p] # "none" => pc'[p] = "done"
    BY <1>1, <1>2, <1>3 DEF EventTypeOK
  <1>5. letter' \in [Requests -> Event]
    <2>1. CASE UNCHANGED letter
      BY <2>1 DEF EventTypeOK
    <2>2. CASE LoadMeta(q) /\ ~UNCHANGED letter
      <3>1. PICK r \in ResolveMeta(letter[q].entity) :
              letter' = [letter EXCEPT ![q].record = r,
                                       ![q].revision = meta[r].current]
        BY <2>2 DEF LoadMeta
      <3>2. r \in DOMAIN meta
        BY ReadTypes DEF TypeOK
      <3>3. r \in ObjectIds /\ meta[r].current \in Nat
        BY <3>2 DEF TypeOK, StoreTypeOK, EntityMeta
      <3>4. [letter[q] EXCEPT !.record = r, !.revision = meta[r].current] \in Event
        <4>1. letter[q] \in Event
          BY DEF EventTypeOK
        <4>2. ASSUME NEW e \in Event, NEW x \in ObjectIds, NEW n \in Nat
              PROVE  [e EXCEPT !.record = x, !.revision = n] \in Event
          BY DEF Event
        <4> QED
          BY <3>3, <4>1, <4>2
      <3>5. letter' = [letter EXCEPT ![q] = [letter[q] EXCEPT
                         !.record = r, !.revision = meta[r].current]]
        BY <3>1
      <3> HIDE DEF Event
      <3> QED
        BY <3>4, <3>5 DEF EventTypeOK
    <2>3. CASE LoadVersion(q) /\ ~UNCHANGED letter
      <3>1. PICK d \in GetVersion(letter[q].record, letter[q].revision) :
              letter' = [letter EXCEPT ![q].revision = versions[d].version,
                                       ![q].title = versions[d].content[Title]]
        BY <2>3 DEF LoadVersion
      <3>2. /\ versions[d].version \in Nat
            /\ versions[d].content[Title] \in Values
        BY EventAssumption DEF GetVersion, VersionsOf, TypeOK, StoreTypeOK,
                               GameSystemVersion, Content
      <3>3. [letter[q] EXCEPT !.revision = versions[d].version,
                              !.title = versions[d].content[Title]] \in Event
        BY <3>2 DEF EventTypeOK, Event
      <3> QED
        BY <3>1, <3>3 DEF EventTypeOK
    <2>4. CASE Publish(q)
      <3>1. letter' = [letter EXCEPT ![q] = [letter[q] EXCEPT
                         !.nth = letter[q].nth + 1]]
        BY <2>4 DEF Publish
      <3>2. ASSUME NEW e \in Event
            PROVE  [e EXCEPT !.nth = e.nth + 1] \in Event
        BY DEF Event
      <3> HIDE DEF Event
      <3> QED
        BY <3>1, <3>2 DEF EventTypeOK
    <2> QED
      BY <2>1, <2>2, <2>3, <2>4
      DEF Announce, Confirm, Acknowledged, GiveUp, ConfirmFails, Drop
  <1>6. wire' \subseteq Event /\ stream' \in Seq(Event)
    BY <1>5 DEF Announce, Confirm, LoadMeta, LoadVersion, Publish, Acknowledged,
           GiveUp, ConfirmFails, Drop, EventTypeOK
  <1>7. unconfirmed' \in 0 .. MaxUnconfirmed /\ drops' \in 0 .. MaxDrops
    BY EventAssumption
    DEF Announce, Confirm, LoadMeta, LoadVersion, Publish, Acknowledged, GiveUp,
        ConfirmFails, Drop, EventTypeOK
  <1> QED
    BY <1>4, <1>5, <1>6, <1>7 DEF EventTypeOK

LEMMA BrokerType ==
  ASSUME EventTypeOK, NEW e \in wire, Deliver(e) \/ Lose(e)
  PROVE  EventTypeOK'
  <1>1. UNCHANGED <<notice, letter, pc, unconfirmed>>
    BY DEF Deliver, Lose, vars, control, counts
  <1>2. wire' \subseteq Event
    BY DEF Deliver, Lose, EventTypeOK
  <1>3. stream' \in Seq(Event)
    BY DEF Deliver, Lose, EventTypeOK
  <1>4. drops' \in 0 .. MaxDrops
    BY EventAssumption DEF Deliver, Lose, EventTypeOK, counts
  <1> QED
    BY <1>1, <1>2, <1>3, <1>4 DEF EventTypeOK

LEMMA EventTypeStep ==
  ASSUME TypeOK, EventTypeOK, [EventNext]_eventVars
  PROVE  EventTypeOK'
  <1>1. CASE UNCHANGED eventVars
    BY <1>1 DEF eventVars, vars, control, channel, counts, EventTypeOK
  <1>2. ASSUME NEW q \in Requests,
               \/ Workflow(q) \/ Handle(q) \/ Announce(q)
               \/ ConfirmFails(q) \/ Drop(q)
        PROVE  EventTypeOK'
    BY <1>2, WorkflowEventType, AnnounceType
  <1>3. ASSUME NEW e \in wire, Deliver(e) \/ Lose(e)
        PROVE  EventTypeOK'
    BY <1>3, BrokerType
  <1> QED
    BY <1>1, <1>2, <1>3 DEF EventNext

(* Whatever is announced, whenever, is a well-formed event, and only        *)
(* requests that have been answered with success announce.                  *)
THEOREM EventTypeCorrect == EventSpec => []EventTypeOK
  <1>1. EventInit => TypeOK /\ NextKnown /\ EventTypeOK
    BY InitType, EventInitType DEF EventInit, Init, NextKnown, NumberedSteps
  <1>2. TypeOK /\ NextKnown /\ EventTypeOK /\ [EventNext]_eventVars
          => TypeOK' /\ NextKnown' /\ EventTypeOK'
    BY WorkflowStep, NextType, NextKnownStep, EventTypeStep
  <1> QED
    BY <1>1, <1>2, PTL DEF EventSpec

-----------------------------------------------------------------------------
(* One event of each mutation.                                              *)

(* What is sent is the letter under the id drawn for it.                    *)
LEMMA PublishSends ==
  ASSUME EventTypeOK, NEW q \in Requests, Publish(q)
  PROVE  /\ wire' = wire \cup {letter'[q]} /\ stream' = stream
         /\ notice[q] = "send" /\ notice'[q] = "await"
         /\ letter'[q] \in Event
         /\ letter'[q].by = letter[q].by
         /\ letter'[q].entity = letter[q].entity
         /\ letter'[q].record = letter[q].record
         /\ letter'[q].revision = letter[q].revision
         /\ letter'[q].title = letter[q].title
         /\ \A p \in Requests \ {q} : letter'[p] = letter[p]
  <1>1. /\ wire' = wire \cup {letter'[q]} /\ stream' = stream
        /\ notice[q] = "send" /\ notice'[q] = "await"
        /\ letter' = [letter EXCEPT ![q].nth = letter[q].nth + 1]
    BY DEF Publish, Proceed, EventTypeOK
  <1>2. letter \in [Requests -> Event]
    BY DEF EventTypeOK
  <1>3. letter'[q] = [letter[q] EXCEPT !.nth = letter[q].nth + 1]
    BY <1>1, <1>2
  <1>4. ASSUME NEW e \in Event
        PROVE  LET f == [e EXCEPT !.nth = e.nth + 1]
               IN  /\ f \in Event /\ f.by = e.by /\ f.entity = e.entity
                   /\ f.record = e.record /\ f.revision = e.revision
                   /\ f.title = e.title
    BY DEF Event
  <1>5. letter[q] \in Event
    BY <1>2
  <1>6. \A p \in Requests \ {q} : letter'[p] = letter[p]
    BY <1>1, <1>2
  <1> QED
    BY <1>1, <1>3, <1>4, <1>5, <1>6

(* What was sent is the letter of a request that has sent it.               *)
Posted(e) == e = letter[e.by] /\ notice[e.by] \in {"await", "over"}

Mailed ==
    /\ \A q \in Requests : letter[q].by = q
    /\ \A e \in wire : Posted(e)
    /\ \A i \in DOMAIN stream : Posted(stream[i])

LEMMA EventCases ==
  ASSUME [EventNext]_eventVars
  PROVE  \/ UNCHANGED eventVars
         \/ \E q \in Requests : \/ Workflow(q) \/ Handle(q)
                                \/ Announce(q) \/ ConfirmFails(q) \/ Drop(q)
         \/ \E e \in wire : Deliver(e) \/ Lose(e)
  BY DEF EventNext

(* A letter, once begun, keeps its address, and once sent everything.       *)
LEMMA LetterKept ==
  ASSUME EventTypeOK, [EventNext]_eventVars, NEW p \in Requests,
         notice[p] # "none"
  PROVE  /\ notice'[p] # "none"
         /\ letter'[p].by = letter[p].by /\ letter'[p].entity = letter[p].entity
         /\ notice[p] \in {"await", "over"} =>
              letter'[p] = letter[p] /\ notice'[p] \in {"await", "over"}
  <1> notice \in [Requests -> Notice] /\ letter \in [Requests -> Event]
    BY DEF EventTypeOK
  <1> USE DEF Proceed
  <1>1. CASE UNCHANGED <<notice, letter>>
    BY <1>1
  <1>2. ASSUME NEW q \in Requests, Workflow(q) \/ Handle(q)
        PROVE  letter'[p] = letter[p] /\ notice'[p] = notice[p]
    <2>1. CASE q = p
      <3>1. pc[p] = "done"
        BY DEF EventTypeOK
      <3>2. ~Handle(q)
        BY <2>1, <3>1, ServedInFlight, StepsNotDone DEF Handle
      <3> QED
        BY <1>2, <3>2 DEF Workflow
    <2>2. CASE q # p
      BY <1>2, <2>2 DEF Workflow, Handle
    <2> QED
      BY <2>1, <2>2
  <1>3. ASSUME NEW q \in Requests, Announce(q) \/ ConfirmFails(q) \/ Drop(q),
               p # q
        PROVE  letter'[p] = letter[p] /\ notice'[p] = notice[p]
    BY <1>3 DEF Announce, Confirm, LoadMeta, LoadVersion, Publish, Acknowledged,
                GiveUp, ConfirmFails, Drop
  <1>4. CASE LoadMeta(p)
    <2>1. CASE letter' = letter
      BY <1>4, <2>1 DEF LoadMeta
    <2>2. CASE \E r : letter' = [letter EXCEPT ![p].record = r,
                                               ![p].revision = meta[r].current]
      <3>1. PICK r : letter'[p] = [letter[p] EXCEPT !.record = r,
                                                    !.revision = meta[r].current]
        BY <2>2
      <3>2. letter'[p].by = letter[p].by /\ letter'[p].entity = letter[p].entity
        BY <3>1 DEF Event
      <3> QED
        BY <1>4, <3>2 DEF LoadMeta
    <2> QED
      BY <1>4, <2>1, <2>2 DEF LoadMeta
  <1>5. CASE LoadVersion(p)
    <2>1. CASE letter' = letter
      BY <1>5, <2>1 DEF LoadVersion
    <2>2. CASE \E d : letter' = [letter EXCEPT
                                   ![p].revision = versions[d].version,
                                   ![p].title = versions[d].content[Title]]
      <3>1. PICK d : letter'[p] = [letter[p] EXCEPT
                                     !.revision = versions[d].version,
                                     !.title = versions[d].content[Title]]
        BY <2>2
      <3>2. letter'[p].by = letter[p].by /\ letter'[p].entity = letter[p].entity
        BY <3>1 DEF Event
      <3> QED
        BY <1>5, <3>2 DEF LoadVersion
    <2> QED
      BY <1>5, <2>1, <2>2 DEF LoadVersion
  <1>6. CASE \/ Confirm(p) \/ Acknowledged(p) \/ GiveUp(p)
             \/ ConfirmFails(p) \/ Drop(p)
    BY <1>6 DEF Confirm, Acknowledged, GiveUp, ConfirmFails, Drop
  <1>8. CASE Publish(p)
    BY <1>8, PublishSends
  <1>7. ASSUME NEW e \in wire, Deliver(e) \/ Lose(e)
        PROVE  UNCHANGED <<notice, letter>>
    BY <1>7 DEF Deliver, Lose
  <1> QED
    BY <1>1, <1>2, <1>3, <1>4, <1>5, <1>6, <1>7, <1>8, EventCases
    DEF eventVars, Announce

LEMMA LetterBegun ==
  ASSUME EventTypeOK, [EventNext]_eventVars, NEW p \in Requests,
         notice[p] = "none"
  PROVE  \/ notice'[p] = "none" /\ letter'[p] = letter[p]
         \/ /\ Handle(p) /\ pc'[p] = "done" /\ Announces(job[p])
            /\ notice'[p] \in {"confirm", "load"} /\ letter'[p] = Letterhead(p)
  <1> notice \in [Requests -> Notice] /\ letter \in [Requests -> Event]
    BY DEF EventTypeOK
  <1>1. \A j : FirstNotice(j) \in {"confirm", "load"}
    BY DEF FirstNotice
  <1>2. ASSUME NEW q \in Requests, Workflow(q) \/ Handle(q)
        PROVE  \/ notice'[p] = "none" /\ letter'[p] = letter[p]
               \/ /\ Handle(p) /\ pc'[p] = "done" /\ Announces(job[p])
                  /\ notice'[p] \in {"confirm", "load"}
                  /\ letter'[p] = Letterhead(p)
    <2>1. CASE q = p
      BY <1>1, <1>2, <2>1 DEF Workflow, Handle
    <2>2. CASE q # p
      BY <1>2, <2>2 DEF Workflow, Handle
    <2> QED
      BY <2>1, <2>2
  <1>3. ASSUME NEW q \in Requests, Announce(q) \/ ConfirmFails(q) \/ Drop(q)
        PROVE  notice'[p] = "none" /\ letter'[p] = letter[p]
    BY <1>3 DEF Proceed, Announce, Confirm, LoadMeta, LoadVersion, Publish,
                Acknowledged, GiveUp, ConfirmFails, Drop
  <1>4. ASSUME NEW e \in wire, Deliver(e) \/ Lose(e)
        PROVE  UNCHANGED <<notice, letter>>
    BY <1>4 DEF Deliver, Lose
  <1> QED
    BY <1>2, <1>3, <1>4, EventCases DEF eventVars

(* What the channel holds afterwards.                                       *)
LEMMA ChannelAfter ==
  ASSUME EventTypeOK, [EventNext]_eventVars
  PROVE  /\ \A e \in wire' : \/ e \in wire
                             \/ \E q \in Requests : Publish(q) /\ e = letter'[q]
         /\ \/ stream' = stream
            \/ \E e \in wire : stream' = Append(stream, e)
  <1>1. ASSUME NEW q \in Requests, Publish(q)
        PROVE  wire' = wire \cup {letter'[q]} /\ stream' = stream
    BY <1>1 DEF Publish
  <1>2. ASSUME NEW q \in Requests, ~Publish(q),
               \/ Workflow(q) \/ Handle(q)
               \/ Announce(q) \/ ConfirmFails(q) \/ Drop(q)
        PROVE  wire' = wire /\ stream' = stream
    BY <1>2 DEF channel, Workflow, Handle, Announce, Confirm, LoadMeta,
                LoadVersion, Acknowledged, GiveUp, ConfirmFails, Drop
  <1>3. ASSUME NEW e \in wire, Deliver(e) \/ Lose(e)
        PROVE  /\ wire' \subseteq wire
               /\ stream' = stream \/ stream' = Append(stream, e)
    BY <1>3 DEF Deliver, Lose
  <1> QED
    BY <1>1, <1>2, <1>3, EventCases DEF eventVars, channel

LEMMA StreamAfter ==
  ASSUME EventTypeOK, [EventNext]_eventVars
  PROVE  /\ \A i \in DOMAIN stream' : \/ i \in DOMAIN stream
                                         /\ stream'[i] = stream[i]
                                      \/ stream'[i] \in wire
         /\ \A i \in DOMAIN stream : i \in DOMAIN stream' /\ stream'[i] = stream[i]
  <1>1. stream \in Seq(Event)
    BY DEF EventTypeOK
  <1> QED
    BY <1>1, ChannelAfter

LEMMA MailedStep ==
  ASSUME EventTypeOK, Mailed, [EventNext]_eventVars
  PROVE  Mailed'
  <1> /\ wire \subseteq Event /\ letter \in [Requests -> Event]
      /\ notice \in [Requests -> Notice] /\ stream \in Seq(Event)
    BY DEF EventTypeOK
  <1>1. ASSUME NEW q \in Requests PROVE letter'[q].by = q
    <2>1. Letterhead(q).by = q
      BY DEF Letterhead, Letter
    <2> QED
      BY <2>1, LetterKept, LetterBegun DEF Mailed
  <1>2. ASSUME NEW e \in Event, Posted(e) PROVE Posted(e)'
    <2>1. e.by \in Requests
      BY DEF Event
    <2> QED
      BY <1>2, <2>1, LetterKept DEF Posted
  <1>3. ASSUME NEW e \in wire' PROVE Posted(e)'
    <2>1. CASE e \in wire
      BY <1>2, <2>1 DEF Mailed
    <2>2. ASSUME NEW q \in Requests, Publish(q), e = letter'[q]
          PROVE  Posted(e)'
      BY <1>1, <2>2, PublishSends DEF Posted
    <2> QED
      BY <1>3, <2>1, <2>2, ChannelAfter
  <1>4. ASSUME NEW i \in DOMAIN stream' PROVE Posted(stream[i])'
    <2>1. stream'[i] \in Event /\ Posted(stream'[i])
      BY <1>4, StreamAfter DEF Mailed
    <2>2. PICK e \in Event : e = stream'[i] /\ Posted(e)
      BY <2>1
    <2>3. Posted(e)'
      BY <1>2, <2>2
    <2> QED
      BY <2>2, <2>3 DEF Posted
  <1> QED
    BY <1>1, <1>3, <1>4 DEF Mailed

(* A request publishes once: however many mutations are announced at once,  *)
(* however often the broker delivers a message again and whatever its       *)
(* duplicate window lets through, the stream holds one event of each, and a *)
(* consumer that remembers event ids handles each mutation once.            *)
THEOREM OneEventAlways == EventSpec => []OneEventPerMutation
  <1>1. EventInit => TypeOK /\ NextKnown /\ EventTypeOK /\ Mailed
    BY InitType, EventInitType
    DEF EventInit, Init, NextKnown, NumberedSteps, Mailed, Letter
  <1>2. TypeOK /\ NextKnown /\ EventTypeOK /\ Mailed /\ [EventNext]_eventVars
          => TypeOK' /\ NextKnown' /\ EventTypeOK' /\ Mailed'
    BY WorkflowStep, NextType, NextKnownStep, EventTypeStep, MailedStep
  <1>3. Mailed => OneEventPerMutation
    BY DEF Mailed, Posted, OneEventPerMutation
  <1> QED
    BY <1>1, <1>2, <1>3, PTL DEF EventSpec

-----------------------------------------------------------------------------
(* The truth of an event.                                                   *)

(* What a handler may rely on while it puts its event together: the record  *)
(* it found still answers to the id, the number it read was published, and  *)
(* what it is about to send is true.                                        *)
LetterTrue(q) ==
    /\ notice[q] = "read" =>
         /\ letter[q].record \in ResolveMeta(letter[q].entity)
         /\ WasCurrent(letter[q].record, letter[q].revision)
    /\ notice[q] \in {"send", "await"} => TellsTruth(letter[q])

Truth ==
    /\ \A q \in Requests : LetterTrue(q)
    /\ \A e \in wire : TellsTruth(e)
    /\ EventsFaithful

LEMMA ResolvedStays ==
  ASSUME IdsApart, Grows, NEW id, NEW r \in ResolveMeta(id)
  PROVE  r \in ResolveMeta(id)'
  <1>1. CASE GetMeta(id) # {}
    BY <1>1 DEF ResolveMeta, GetMeta, Grows
  <1>2. CASE GetMeta(id) = {}
    <2>1. PICK d \in DOMAIN versions :
            id = DocId(d) /\ r \in GetMeta(MetaId(versions[d].record))
      BY <1>2 DEF ResolveMeta
    <2>2. GetMeta(id)' = {}
      BY <2>1, IdForms DEF GetMeta
    <2>3. r \in DOMAIN meta' /\ d \in DOMAIN versions'
            /\ r \in GetMeta(MetaId(versions[d].record))'
      BY <1>2, <2>1 DEF ResolveMeta, GetMeta, Grows, Immutable
    <2> QED
      BY <2>1, <2>2, <2>3 DEF ResolveMeta
  <1> QED
    BY <1>1, <1>2

LEMMA TruthStays ==
  ASSUME IdsApart, Grows, NEW e, TellsTruth(e)
  PROVE  TellsTruth(e)'
  <1>1. PICK r \in ResolveMeta(e.entity) :
          \E d \in GetVersion(r, e.revision) :
            /\ versions[d].state # "submitted"
            /\ versions[d].content[Title] = e.title
    BY DEF TellsTruth
  <1>2. PICK d \in GetVersion(r, e.revision) :
          /\ versions[d].state # "submitted"
          /\ versions[d].content[Title] = e.title
    BY <1>1
  <1>3. r \in ResolveMeta(e.entity)'
    BY ResolvedStays
  <1>4. /\ d \in GetVersion(r, e.revision)'
        /\ versions'[d].state # "submitted"
        /\ versions'[d].content[Title] = e.title
    BY <1>2 DEF Grows, Immutable, GetVersion, VersionsOf
  <1> QED
    BY <1>3, <1>4 DEF TellsTruth

LEMMA WasCurrentStays ==
  ASSUME Grows, FirstPublished, NEW r, NEW n, WasCurrent(r, n)
  PROVE  WasCurrent(r, n)'
  BY GrowsKeeps DEF WasCurrent, FirstPublished

LEMMA LetterStays ==
  ASSUME IdsApart, Grows, FirstPublished, NEW q, LetterTrue(q),
         letter'[q] = letter[q], notice'[q] = notice[q]
  PROVE  LetterTrue(q)'
  <1>1. ASSUME notice[q] = "read"
        PROVE  /\ letter[q].record \in ResolveMeta(letter[q].entity)'
               /\ WasCurrent(letter[q].record, letter[q].revision)'
    BY <1>1, ResolvedStays, WasCurrentStays DEF LetterTrue
  <1>2. ASSUME notice[q] \in {"send", "await"}
        PROVE  TellsTruth(letter[q])'
    BY <1>2, TruthStays DEF LetterTrue
  <1> QED
    BY <1>1, <1>2 DEF LetterTrue, TellsTruth

LEMMA EventUpdate ==
  ASSUME NEW e \in Event, NEW x, NEW n, NEW t
  PROVE  /\ [e EXCEPT !.record = x, !.revision = n].record = x
         /\ [e EXCEPT !.record = x, !.revision = n].revision = n
         /\ [e EXCEPT !.record = x, !.revision = n].entity = e.entity
         /\ [e EXCEPT !.revision = n, !.title = t].revision = n
         /\ [e EXCEPT !.revision = n, !.title = t].title = t
         /\ [e EXCEPT !.revision = n, !.title = t].entity = e.entity
  BY DEF Event

(* What publishSystemChange reads is of one published version.              *)
LEMMA ReadIsTrue ==
  ASSUME WorkflowInv, EventTypeOK, NEW q \in Requests, LetterTrue(q),
         LoadMeta(q) \/ LoadVersion(q)
  PROVE  LetterTrue(q)'
  <1> USE DEF Proceed
  <1> q \in DOMAIN notice /\ q \in DOMAIN letter
    BY DEF EventTypeOK
  <1>1. CASE notice'[q] = "over"
    BY <1>1 DEF LetterTrue
  <1>2. CASE LoadMeta(q) /\ notice'[q] # "over"
    <2>1. PICK r \in ResolveMeta(letter[q].entity) :
            /\ letter' = [letter EXCEPT ![q].record = r,
                                        ![q].revision = meta[r].current]
            /\ notice' = [notice EXCEPT ![q] = "read"]
      BY <1>2 DEF LoadMeta
    <2>2. /\ letter'[q].record = r /\ letter'[q].revision = meta[r].current
          /\ letter'[q].entity = letter[q].entity
      <3>1. letter[q] \in Event
        BY DEF EventTypeOK
      <3>2. letter'[q] = [letter[q] EXCEPT !.record = r,
                                           !.revision = meta[r].current]
        BY <2>1
      <3> QED
        BY <3>1, <3>2, EventUpdate
    <2>3. r \in DOMAIN meta
      BY DEF ResolveMeta, GetMeta
    <2>4. WasCurrent(r, meta[r].current)
      BY <2>3 DEF WorkflowInv, HistoryInv, StoreInv, CurrentKnown
    <2>5. UNCHANGED <<meta, versions>>
      BY <1>2 DEF LoadMeta, vars, store
    <2>6. notice'[q] = "read"
      BY <2>1
    <2> QED
      BY <2>2, <2>4, <2>5, <2>6
      DEF LetterTrue, WasCurrent, IsPublished, GetVersion, VersionsOf,
          ResolveMeta, GetMeta
  <1>3. CASE LoadVersion(q) /\ notice'[q] # "over"
    <2>1. PICK d \in GetVersion(letter[q].record, letter[q].revision) :
            /\ letter' = [letter EXCEPT
                            ![q].revision = versions[d].version,
                            ![q].title = versions[d].content[Title]]
            /\ notice' = [notice EXCEPT ![q] = "send"]
      BY <1>3 DEF LoadVersion
    <2>2. /\ letter'[q].entity = letter[q].entity
          /\ letter'[q].revision = letter[q].revision
          /\ letter'[q].title = versions[d].content[Title]
      <3>1. letter[q] \in Event /\ versions[d].version = letter[q].revision
        BY DEF EventTypeOK, GetVersion
      <3>2. letter'[q] = [letter[q] EXCEPT
                            !.revision = versions[d].version,
                            !.title = versions[d].content[Title]]
        BY <2>1
      <3> QED
        BY <3>1, <3>2, EventUpdate
    <2>3. versions[d].state # "submitted"
      <3>1. IsPublished(letter[q].record, letter[q].revision)
        BY <1>3 DEF LoadVersion, LetterTrue, WasCurrent, GetVersion
      <3>2. PICK e \in GetVersion(letter[q].record, letter[q].revision) :
              versions[e].state # "submitted"
        BY <3>1 DEF IsPublished
      <3>3. d = e
        BY DEF WorkflowInv, HistoryInv, StoreInv, NumbersUnique, GetVersion,
               VersionsOf
      <3> QED
        BY <3>2, <3>3
    <2>4. letter[q].record \in ResolveMeta(letter[q].entity)
      BY <1>3 DEF LoadVersion, LetterTrue
    <2>5. UNCHANGED <<meta, versions>>
      BY <1>3 DEF LoadVersion, vars, store
    <2>6. notice'[q] = "send"
      BY <2>1
    <2>7. TellsTruth(letter'[q])
      BY <2>1, <2>2, <2>3, <2>4 DEF TellsTruth
    <2>8. TellsTruth(letter[q])'
      BY <2>5, <2>7
      DEF TellsTruth, ResolveMeta, GetMeta, GetVersion, VersionsOf
    <2> QED
      BY <2>6, <2>8 DEF LetterTrue
  <1> QED
    BY <1>1, <1>2, <1>3

LEMMA LettersStep ==
  ASSUME WorkflowInv, EventTypeOK, Truth, [EventNext]_eventVars,
         Grows, FirstPublished, NEW p \in Requests
  PROVE  LetterTrue(p)'
  <1> USE DEF Proceed
  <1> /\ LetterTrue(p) /\ p \in DOMAIN notice /\ p \in DOMAIN letter
      /\ IdsApart
    BY DEF Truth, EventTypeOK, WorkflowInv, HistoryInv
  <1>1. CASE UNCHANGED <<notice, letter>>
    BY <1>1, LetterStays
  <1>2. ASSUME NEW q \in Requests, Workflow(q) \/ Handle(q)
        PROVE  LetterTrue(p)'
    <2>1. CASE notice' = [notice EXCEPT ![q] = FirstNotice(job[q])] /\ p = q
      <3>1. notice'[p] \in {"confirm", "load"}
        BY <2>1 DEF FirstNotice
      <3> QED
        BY <3>1 DEF LetterTrue
    <2>2. CASE letter'[p] = letter[p] /\ notice'[p] = notice[p]
      BY <2>2, LetterStays
    <2> QED
      BY <1>2, <2>1, <2>2 DEF Workflow, Handle
  <1>3. ASSUME NEW q \in Requests, Announce(q) \/ ConfirmFails(q) \/ Drop(q),
               p # q
        PROVE  letter'[p] = letter[p] /\ notice'[p] = notice[p]
    BY <1>3 DEF Announce, Confirm, LoadMeta, LoadVersion, Publish, Acknowledged,
                GiveUp, ConfirmFails, Drop, EventTypeOK
  <1>4. ASSUME Announce(p) \/ ConfirmFails(p) \/ Drop(p)
        PROVE  LetterTrue(p)'
    <2>1. CASE LoadMeta(p) \/ LoadVersion(p)
      BY <2>1, ReadIsTrue
    <2>2. CASE Publish(p)
      <3>1. notice[p] = "send" /\ notice'[p] = "await"
        BY <2>2, PublishSends
      <3>2. PICK e : e = letter'[p] /\ TellsTruth(e)
        BY <2>2, <3>1, PublishSends DEF LetterTrue, TellsTruth
      <3>3. TellsTruth(e)'
        BY <3>2, TruthStays
      <3>4. TellsTruth(letter[p])'
        BY <3>2, <3>3 DEF TellsTruth
      <3> QED
        BY <3>1, <3>4 DEF LetterTrue
    <2>3. CASE notice'[p] \in {"load", "over"}
      BY <2>3 DEF LetterTrue
    <2> QED
      BY <1>4, <2>1, <2>2, <2>3
      DEF Announce, Confirm, Acknowledged, GiveUp, ConfirmFails, Drop
  <1>5. ASSUME NEW e \in wire, Deliver(e) \/ Lose(e)
        PROVE  UNCHANGED <<notice, letter>>
    BY <1>5 DEF Deliver, Lose
  <1> QED
    BY <1>1, <1>2, <1>3, <1>4, <1>5, LetterStays DEF EventNext, eventVars

LEMMA ChannelStep ==
  ASSUME IdsApart, EventTypeOK, Truth, [EventNext]_eventVars, Grows
  PROVE  /\ \A e \in wire' : TellsTruth(e)'
         /\ EventsFaithful'
  <1> USE DEF Proceed, channel
  <1>1. ASSUME NEW e \in wire PROVE TellsTruth(e)'
    BY <1>1, TruthStays DEF Truth
  <1>2. ASSUME NEW i \in DOMAIN stream, NEW e, e = stream[i]
        PROVE  TellsTruth(e)'
    BY <1>2, TruthStays DEF Truth, EventsFaithful
  <1>3. \A e \in wire' : TellsTruth(e)'
    <2>1. ASSUME NEW q \in Requests, Publish(q), NEW e, e = letter'[q]
          PROVE  TellsTruth(e)
      BY <2>1, PublishSends DEF Truth, LetterTrue, TellsTruth
    <2>2. ASSUME NEW e \in wire', e \notin wire
          PROVE  TellsTruth(e)
      BY <2>1, <2>2, ChannelAfter
    <2> QED
      BY <1>1, <2>2, TruthStays
  <1>4. EventsFaithful'
    <2>1. CASE UNCHANGED stream
      <3>1. ASSUME NEW i \in DOMAIN stream PROVE TellsTruth(stream[i])'
        BY <1>2, <2>1
      <3> QED
        BY <2>1, <3>1 DEF EventsFaithful
    <2>2. ASSUME NEW e \in wire, stream' = Append(stream, e)
          PROVE  EventsFaithful'
      <3>1. stream \in Seq(Event)
        BY DEF EventTypeOK
      <3>2. \A i \in DOMAIN stream' :
              \/ i \in DOMAIN stream /\ stream'[i] = stream[i]
              \/ stream'[i] = e
        BY <2>2, <3>1
      <3>3. ASSUME NEW i \in DOMAIN stream'
            PROVE  TellsTruth(stream[i])'
        <4>1. CASE i \in DOMAIN stream /\ stream'[i] = stream[i]
          BY <1>2, <4>1 DEF TellsTruth
        <4>2. CASE stream'[i] = e
          BY <1>1, <4>2 DEF TellsTruth
        <4> QED
          BY <3>2, <4>1, <4>2
      <3> QED
        BY <3>3 DEF EventsFaithful
    <2>3. \/ UNCHANGED stream
          \/ \E e \in wire : stream' = Append(stream, e)
      BY ChannelAfter
    <2> QED
      BY <2>1, <2>2, <2>3
  <1> QED
    BY <1>3, <1>4

(* No race between mutations, announcements and deliveries makes the stream *)
(* state a number or a title that was never published for the system its    *)
(* entity_id names, nor one the collections no longer hold.                 *)
THEOREM EventsAlwaysFaithful ==
  ASSUME IdsApart
  PROVE  EventSpec => []EventsFaithful
  <1>1. EventInit => WorkflowInv /\ EventTypeOK /\ Truth
    <2>1. EventInit => Truth
      BY DEF EventInit, Truth, LetterTrue, EventsFaithful
    <2> QED
      BY <2>1, WorkflowInit, EventInitType DEF EventInit
  <1>2. WorkflowInv /\ EventTypeOK /\ Truth /\ [EventNext]_eventVars
          => WorkflowInv' /\ EventTypeOK' /\ Truth'
    <2> SUFFICES ASSUME WorkflowInv, EventTypeOK, Truth, [EventNext]_eventVars
                 PROVE  WorkflowInv' /\ EventTypeOK' /\ Truth'
      OBVIOUS
    <2>1. WorkflowInv' /\ EventTypeOK' /\ Grows /\ FirstPublished
      BY WorkflowStep, WorkflowKept, EventTypeStep DEF WorkflowInv
    <2> QED
      BY <2>1, LettersStep, ChannelStep DEF Truth
  <1>3. Truth => EventsFaithful
    BY DEF Truth
  <1> QED
    BY <1>1, <1>2, <1>3, PTL DEF EventSpec

-----------------------------------------------------------------------------
(* The current version is announced.                                        *)

Unfailed == aborts = 0 /\ unconfirmed = 0 /\ drops = 0

(* Once a request announces, the id it put in its letter names a system.    *)
Enveloped(q) == notice[q] # "none" => ResolveMeta(letter[q].entity) # {}

(* The letter of q tells, or will, what is current in r.                    *)
Tells(q, r) ==
    /\ notice[q] # "none" /\ r \in ResolveMeta(letter[q].entity)
    /\ \/ notice[q] \in {"confirm", "load"}
       \/ /\ letter[q].revision = meta[r].current
          /\ \/ notice[q] \in {"read", "send"}
             \/ letter[q] \in wire
             \/ \E i \in DOMAIN stream : stream[i] = letter[q]

(* A request that will announce r when it is done.                          *)
WillTell(q, r) == \/ pc[q] = "insertFirst" /\ q = r
                  \/ pc[q] = "close" /\ reg[q].record = r

Untold(r) == /\ r = Seed /\ meta[r].current = 1
             /\ \A q \in Requests :
                  notice[q] # "none" => r \notin ResolveMeta(letter[q].entity)

Told(r) == Untold(r) \/ \E q \in Requests : WillTell(q, r) \/ Tells(q, r)

PostInv == Mailed /\ \A q \in Requests : Enveloped(q)

(* A PATCH that moves the pointer publishes, and so announces.              *)
Outcomes ==
    /\ \A q \in Requests : pc[q] \in {"archive", "pointPatch"} =>
                             PatchState(job[q].user) = "live"
    /\ aborts = 0 => \A q \in Requests : pc[q] # "aborted"

CoverageBase ==
    /\ WorkflowInv /\ EditorialInv /\ VersionlessOnlyByCreate
    /\ EventTypeOK /\ Truth /\ PostInv /\ Outcomes

Coverage == Unfailed => \A r \in DOMAIN meta : Told(r)

LEMMA WorkflowIsOutcome == WorkflowInv <=> OutcomeInv
  BY DEF WorkflowInv, OutcomeInv

(* An id names one system, and goes on naming it.                           *)
LEMMA FormsDiffer ==
  ASSUME IdsApart
  PROVE
  \A r, s, x, y : /\ MetaId(r) = MetaId(s) => r = s
                  /\ SlugId(x) = SlugId(y) => x = y
                  /\ DocId(r) = DocId(s) => r = s
                  /\ MetaId(r) # SlugId(x) /\ MetaId(r) # DocId(s)
                  /\ SlugId(x) # DocId(s)
  <1>1. \A d : DocId(d).of = d
    BY DEF DocId
  <1> QED
    BY <1>1, IdForms

LEMMA OneResolved ==
  ASSUME IdsApart, StoreInv, NEW id, NEW r \in ResolveMeta(id), NEW s \in ResolveMeta(id)
  PROVE  r = s
  <1> USE FormsDiffer
  <1>1. CASE GetMeta(id) # {}
    BY <1>1 DEF ResolveMeta, GetMeta, StoreInv, SlugsUnique
  <1>2. CASE GetMeta(id) = {}
    BY <1>2 DEF ResolveMeta, GetMeta
  <1> QED
    BY <1>1, <1>2

LEMMA StaysResolved ==
  ASSUME IdsApart, Grows, StoreInv', NEW id, ResolveMeta(id) # {},
         NEW r \in ResolveMeta(id)'
  PROVE  r \in ResolveMeta(id)
  <1> USE FormsDiffer
  <1>1. PICK s \in ResolveMeta(id) : TRUE
    OBVIOUS
  <1>2. s \in ResolveMeta(id)'
    BY ResolvedStays
  <1>3. CASE GetMeta(id)' # {}
    <2>1. r \in GetMeta(id)' /\ s \in GetMeta(id)'
      BY <1>2, <1>3 DEF ResolveMeta
    <2>2. \A x, y \in DOMAIN meta' : meta'[x].slug = meta'[y].slug => x = y
      BY DEF StoreInv, SlugsUnique
    <2>3. r = s
      BY <2>1, <2>2 DEF GetMeta
    <2> QED
      BY <2>3
  <1>4. CASE GetMeta(id)' = {}
    <2>1. /\ \E d \in DOMAIN versions' : id = DocId(d) /\ versions'[d].record = r
          /\ \E d \in DOMAIN versions' : id = DocId(d) /\ versions'[d].record = s
      BY <1>2, <1>4 DEF ResolveMeta, GetMeta
    <2> QED
      BY <2>1
  <1> QED
    BY <1>3, <1>4

(* How a request comes to be answered "done", and for which system.         *)
LEMMA DoneBy ==
  ASSUME NEW q \in Requests, Serve(q), pc'[q] = "done", q \in DOMAIN pc
  PROVE  \/ CreateInsertVersion(q) \/ PatchInsert(q) \/ AcceptClose(q)
         \/ RejectMark(q) \/ RetractMark(q) \/ SetCurrentRead(q) \/ PointMeta(q)
  <1> USE DEF Goto, Remember, Answer, Refuse
  <1>1. CASE \/ CreateInsertMeta(q) \/ PatchResolve(q) \/ PatchRead(q)
             \/ PatchBase(q) \/ PatchNumber(q)
    BY <1>1 DEF CreateInsertMeta, PatchResolve, PatchRead, PatchBase, PatchNumber
  <1>2. CASE \/ AcceptLoad(q) \/ AcceptDecide(q) \/ AcceptPromote(q)
             \/ AcceptNumber(q) \/ AcceptInsert(q)
    BY <1>2 DEF AcceptLoad, AcceptDecide, AcceptPromote, AcceptNumber,
                AcceptInsert
  <1>3. CASE \/ RejectLoad(q) \/ RetractLoad(q) \/ SetCurrentResolve(q)
             \/ SetCurrentRestore(q) \/ ArchiveCurrent(q)
    BY <1>3 DEF RejectLoad, RetractLoad, SetCurrentResolve, SetCurrentRestore,
                ArchiveCurrent, AfterArchive
  <1> QED
    BY <1>1, <1>2, <1>3 DEF Serve

Addressee(q) == IF job[q].op = "create" THEN q ELSE reg[q].record

LEMMA LetterheadNames ==
  ASSUME WorkflowInv, EditorialInv, Grows, NEW q \in Requests, Serve(q),
         pc'[q] = "done", NEW id, id = Letterhead(q).entity,
         NEW r, r = Addressee(q)
  PROVE  Letterhead(q).by = q /\ r \in ResolveMeta(id)'
  <1> /\ IdsApart /\ ControlTypeOK /\ RequestInv(q) /\ Named(q)
      /\ pc \in [Requests -> Steps \cup Answers \cup {"idle"}]
    BY DEF WorkflowInv, TypeOK, HistoryInv, EditorialInv, ControlTypeOK
  <1>1. /\ Letterhead(q).by = q
        /\ Letterhead(q).entity = IF job[q].op = "create" THEN MetaId(q)
                                  ELSE job[q].id
    BY DEF Letterhead, Letter
  <1>2. CASE CreateInsertVersion(q)
    <2>1. job[q].op = "create"
      BY <1>2, JobOfStep DEF CreateInsertVersion, CreateSteps, CreateJob
    <2>2. q \in ResolveMeta(MetaId(q))
      BY <1>2 DEF CreateInsertVersion, RequestInv, Fresh, ResolveMeta, GetMeta
    <2> QED
      BY <1>1, <2>1, <2>2, ResolvedStays DEF Addressee
  <1>3. CASE ~CreateInsertVersion(q)
    <2>1. /\ pc[q] \in NamedSteps /\ pc[q] \notin CreateSteps
          /\ pc[q] \in PatchSteps \cup AcceptSteps \cup RejectSteps
                         \cup RetractSteps \cup CurrentSteps
      BY <1>3, DoneBy
      DEF PatchInsert, AcceptClose, RejectMark, RetractMark, SetCurrentRead,
          PointMeta, NamedSteps, AfterCurrentRead, CreateSteps, PatchSteps,
          AcceptSteps, RejectSteps, RetractSteps, CurrentSteps
    <2>2. job[q].op # "create"
      BY <2>1, JobOfStep
      DEF PatchJob, AcceptJob, RejectJob, RetractJob, CurrentJob
    <2>3. reg[q].record \in ResolveMeta(job[q].id)
      BY <2>1 DEF Named, StillNames, ResolveMeta, GetMeta
    <2> QED
      BY <1>1, <2>2, <2>3, ResolvedStays DEF Addressee
  <1> QED
    BY <1>2, <1>3

LEMMA PostStep ==
  ASSUME CoverageBase, [EventNext]_eventVars
  PROVE  PostInv'
  <1> /\ WorkflowInv /\ EditorialInv /\ EventTypeOK /\ PostInv /\ IdsApart
    BY DEF CoverageBase, WorkflowInv, HistoryInv
  <1>1. Grows
    BY WorkflowStep, WorkflowKept
  <1>2. ASSUME NEW q \in Requests PROVE Enveloped(q)'
    <2>1. CASE notice[q] # "none"
      <3>1. PICK id, r : id = letter[q].entity /\ r \in ResolveMeta(id)
        BY <2>1 DEF PostInv, Enveloped
      <3>2. r \in ResolveMeta(id)'
        BY <1>1, <3>1, ResolvedStays
      <3>3. letter'[q].entity = id
        BY <2>1, <3>1, LetterKept
      <3> QED
        BY <3>2, <3>3 DEF Enveloped
    <2>2. CASE notice[q] = "none" /\ notice'[q] = "none" /\ letter'[q] = letter[q]
      BY <2>2 DEF Enveloped
    <2>3. CASE /\ notice[q] = "none" /\ Handle(q) /\ pc'[q] = "done"
               /\ letter'[q] = Letterhead(q)
      <3>1. PICK id, r : id = Letterhead(q).entity /\ r = Addressee(q)
        OBVIOUS
      <3>2. r \in ResolveMeta(id)'
        BY <1>1, <2>3, <3>1, LetterheadNames DEF Handle
      <3> QED
        BY <2>3, <3>1, <3>2 DEF Enveloped
    <2> QED
      BY <2>1, <2>2, <2>3, LetterBegun
  <1> QED
    BY <1>2, MailedStep DEF PostInv

LEMMA ServedNotAborted ==
  ASSUME NEW q \in Requests, q \in DOMAIN pc, Serve(q)
  PROVE  pc'[q] # "aborted"
  <1> USE DEF Goto, Remember, Answer, Refuse
  <1>1. CASE \/ CreateInsertMeta(q) \/ CreateInsertVersion(q)
             \/ PatchResolve(q) \/ PatchRead(q) \/ PatchBase(q)
             \/ PatchNumber(q) \/ PatchInsert(q)
    BY <1>1 DEF CreateInsertMeta, CreateInsertVersion, PatchResolve, PatchRead,
                PatchBase, PatchNumber, PatchInsert
  <1>2. CASE \/ AcceptLoad(q) \/ AcceptDecide(q) \/ AcceptPromote(q)
             \/ AcceptNumber(q) \/ AcceptInsert(q) \/ AcceptClose(q)
    BY <1>2 DEF AcceptLoad, AcceptDecide, AcceptPromote, AcceptNumber,
                AcceptInsert, AcceptClose
  <1>3. CASE \/ RejectLoad(q) \/ RejectMark(q) \/ RetractLoad(q)
             \/ RetractMark(q) \/ SetCurrentResolve(q) \/ SetCurrentRead(q)
             \/ SetCurrentRestore(q) \/ ArchiveCurrent(q) \/ PointMeta(q)
    BY <1>3 DEF RejectLoad, RejectMark, RetractLoad, RetractMark,
                SetCurrentResolve, SetCurrentRead, SetCurrentRestore,
                ArchiveCurrent, AfterArchive, PointMeta
  <1> QED
    BY <1>1, <1>2, <1>3 DEF Serve

LEMMA CloseCloses ==
  ASSUME NEW q \in Requests, Serve(q), pc[q] = "close"
  PROVE  AcceptClose(q)
  BY DEF Serve, CreateInsertMeta, CreateInsertVersion, PatchResolve, PatchRead,
         PatchBase, PatchNumber, PatchInsert, AcceptLoad, AcceptDecide,
         AcceptPromote, AcceptNumber, AcceptInsert, RejectLoad, RejectMark,
         RetractLoad, RetractMark, SetCurrentResolve, SetCurrentRead,
         SetCurrentRestore, ArchiveCurrent, AfterArchive, PointMeta

LEMMA OutcomesStep ==
  ASSUME WorkflowInv, Outcomes, [Next]_vars
  PROVE  Outcomes'
  <1>1. CASE UNCHANGED vars
    BY <1>1 DEF vars, control, Outcomes
  <1>2. ASSUME NEW q \in Requests, Arrive(q) \/ Serve(q) \/ Abort(q),
               NEW p \in Requests
        PROVE  /\ pc'[p] \in {"archive", "pointPatch"} =>
                    PatchState(job'[p].user) = "live"
               /\ aborts' = 0 => pc'[p] # "aborted"
    <2> /\ ControlTypeOK /\ aborts \in Nat
        /\ pc \in [Requests -> Steps \cup Answers \cup {"idle"}]
      BY WorkflowAssumption DEF WorkflowInv, TypeOK, ControlTypeOK
    <2>1. CASE p # q
      <3>1. pc'[p] = pc[p] /\ job'[p] = job[p]
        BY <1>2, <2>1, OthersStay
      <3>2. aborts' = 0 => aborts = 0
        BY <1>2, AbortsStep
      <3> QED
        BY <3>1, <3>2 DEF Outcomes
    <2>2. CASE p = q
      <3>1. ASSUME pc'[q] \in {"archive", "pointPatch"}
            PROVE  PatchState(job'[q].user) = "live"
        <4>1. \/ pc'[q] = "archive" /\ PatchInsert(q)
              \/ ArchiveCurrent(q) /\ pc[q] = "archive"
          BY <1>2, <3>1, StepMoves DEF Moves, Answers, Entry
        <4>2. CASE PatchInsert(q)
          BY <3>1, <4>2 DEF PatchInsert, Goto, Refuse, Answer
        <4>3. CASE ArchiveCurrent(q) /\ pc[q] = "archive"
          BY <4>3 DEF ArchiveCurrent, Goto, Outcomes
        <4> QED
          BY <4>1, <4>2, <4>3
      <3>2. ASSUME aborts' = 0 PROVE pc'[q] # "aborted"
        <4>1. ~Abort(q)
          BY <3>2 DEF Abort
        <4>2. aborts = 0
          BY <1>2, <3>2, AbortsStep
        <4>3. CASE Arrive(q)
          BY <4>3 DEF Arrive, StartCreate, StartPatch, StartAccept, StartReject,
                      StartRetract, StartSetCurrent, Start
        <4>4. CASE Serve(q)
          BY <4>4, ServedNotAborted
        <4> QED
          BY <1>2, <4>1, <4>3, <4>4
      <3> QED
        BY <2>2, <3>1, <3>2
    <2> QED
      BY <2>1, <2>2
  <1> QED
    BY <1>1, <1>2 DEF Next, Outcomes

LEMMA CoverageBaseStep ==
  ASSUME CoverageBase, [EventNext]_eventVars
  PROVE  CoverageBase'
  <1>1. [Next]_vars
    BY WorkflowStep
  <1>2. WorkflowInv' /\ Grows /\ FirstPublished
    BY <1>1, WorkflowKept DEF CoverageBase
  <1>3. EditorialInv' /\ VersionlessOnlyByCreate' /\ Outcomes'
    BY <1>1, WorkflowIsOutcome, EditorialStep, VersionlessStep, OutcomesStep
    DEF CoverageBase
  <1>4. EventTypeOK'
    BY EventTypeStep DEF CoverageBase, WorkflowInv
  <1>5. Truth'
    BY <1>2, LettersStep, ChannelStep
    DEF CoverageBase, Truth, WorkflowInv, HistoryInv
  <1> QED
    BY <1>2, <1>3, <1>4, <1>5, PostStep DEF CoverageBase

(* A request that is done and announces will tell.                          *)
LEMMA DoneTells ==
  ASSUME CoverageBase, [EventNext]_eventVars, NEW q \in Requests, Handle(q),
         pc'[q] = "done", Announces(job[q]), NEW r, r = Addressee(q)
  PROVE  Tells(q, r)'
  <1> /\ WorkflowInv /\ EditorialInv /\ EventTypeOK
    BY DEF CoverageBase
  <1>1. Grows
    BY WorkflowStep, WorkflowKept
  <1>2. notice' = [notice EXCEPT ![q] = FirstNotice(job[q])]
        /\ letter' = [letter EXCEPT ![q] = Letterhead(q)]
    BY DEF Handle
  <1>3. notice'[q] \in {"confirm", "load"} /\ letter'[q] = Letterhead(q)
    BY <1>2 DEF FirstNotice, EventTypeOK
  <1>4. PICK id : id = Letterhead(q).entity
    OBVIOUS
  <1>5. r \in ResolveMeta(id)'
    BY <1>1, <1>4, LetterheadNames DEF Handle
  <1> QED
    BY <1>3, <1>4, <1>5 DEF Tells

(* Moving the pointer promises to tell of it, and so does creating a        *)
(* system.                                                                  *)
LEMMA PointTells ==
  ASSUME CoverageBase, [EventNext]_eventVars, NEW q \in Requests, Handle(q),
         PointMeta(q), NEW r, r = reg[q].record
  PROVE  WillTell(q, r)' \/ Tells(q, r)'
  <1> /\ ControlTypeOK /\ Outcomes
      /\ pc \in [Requests -> Steps \cup Answers \cup {"idle"}]
    BY DEF CoverageBase, WorkflowInv, TypeOK, ControlTypeOK
  <1>1. CASE pc[q] = "pointDerived"
    BY <1>1 DEF PointMeta, Goto, WillTell
  <1>2. CASE pc[q] # "pointDerived"
    <2>1. pc'[q] = "done"
      BY <1>2 DEF PointMeta, Answer
    <2>2. \/ pc[q] = "pointPatch" /\ job[q] \in PatchJob
          \/ pc[q] = "pointAccept" /\ job[q] \in AcceptJob
          \/ pc[q] = "pointTarget" /\ job[q] \in CurrentJob
      BY <1>2, JobOfStep DEF PointMeta, PatchSteps, AcceptSteps, CurrentSteps
    <2>3. Announces(job[q]) /\ Addressee(q) = r
      BY <2>2 DEF Announces, Addressee, Outcomes, PatchJob, AcceptJob, CurrentJob
    <2> QED
      BY <2>1, <2>3, DoneTells
  <1> QED
    BY <1>1, <1>2

LEMMA WillTellStep ==
  ASSUME CoverageBase, CoverageBase', [EventNext]_eventVars, aborts' = 0,
         NEW q \in Requests, NEW r \in DOMAIN meta, WillTell(q, r)
  PROVE  WillTell(q, r)' \/ Tells(q, r)'
  <1> /\ TypeOK /\ ControlTypeOK
      /\ pc \in [Requests -> Steps \cup Answers \cup {"idle"}]
    BY DEF CoverageBase, WorkflowInv, TypeOK, ControlTypeOK
  <1> ~Abort(q)
    <2>1. aborts \in Nat
      BY WorkflowAssumption DEF ControlTypeOK
    <2> QED
      BY <2>1 DEF Abort
  <1>1. CASE pc'[q] = pc[q] /\ reg'[q] = reg[q]
    BY <1>1 DEF WillTell
  <1>2. CASE Handle(q) /\ pc[q] = "insertFirst"
    <2>1. CreateInsertVersion(q) /\ job[q].op = "create"
      BY <1>2, BetweenInserts, JobOfStep
      DEF Handle, CreateInsertVersion, CreateSteps, CreateJob
    <2>2. pc'[q] = "done"
      <3>1. RequestInv(q)
        BY DEF CoverageBase, WorkflowInv, HistoryInv
      <3> QED
        BY <1>2, <2>1, <3>1, CreateIsFirst DEF Answer
    <2>3. Announces(job[q]) /\ Addressee(q) = r
      BY <1>2, <2>1 DEF Announces, Addressee, WillTell
    <2> QED
      BY <1>2, <2>2, <2>3, DoneTells
  <1>3. CASE Handle(q) /\ pc[q] = "close"
    <2>1. AcceptClose(q)
      BY <1>3, CloseCloses DEF Handle
    <2>2. pc'[q] = "done" /\ job[q] \in AcceptJob
      BY <2>1, JobOfStep DEF AcceptClose, Answer, AcceptSteps
    <2>3. Announces(job[q]) /\ Addressee(q) = r
      BY <1>3, <2>2 DEF Announces, Addressee, WillTell, AcceptJob
    <2> QED
      BY <1>3, <2>2, <2>3, DoneTells
  <1>4. CASE Workflow(q)
    <2>1. ~Arrive(q)
      BY DEF WillTell, Arrive, StartCreate, StartPatch, StartAccept, StartReject,
             StartRetract, StartSetCurrent, Start
    <2> QED
      BY <1>4, <2>1 DEF Workflow
  <1>5. ASSUME NEW p \in Requests \ {q}, Workflow(p) \/ Handle(p)
        PROVE  pc'[q] = pc[q] /\ reg'[q] = reg[q]
    BY <1>5, OthersStay DEF Workflow, Handle
  <1>6. ASSUME NEW p \in Requests, Announce(p) \/ ConfirmFails(p) \/ Drop(p)
        PROVE  pc' = pc /\ reg' = reg
    BY <1>6 DEF Proceed, vars, control, Announce, Confirm, LoadMeta, LoadVersion,
                Publish, Acknowledged, GiveUp, ConfirmFails, Drop
  <1>7. ASSUME NEW e \in wire, Deliver(e) \/ Lose(e)
        PROVE  pc' = pc /\ reg' = reg
    BY <1>7 DEF Deliver, Lose, vars, control
  <1> QED
    BY <1>1, <1>2, <1>3, <1>4, <1>5, <1>6, <1>7, EventCases
    DEF WillTell, eventVars, vars, control

LEMMA FailuresCounted ==
  ASSUME CoverageBase, [EventNext]_eventVars, Unfailed'
  PROVE  /\ Unfailed
         /\ \A q \in Requests : ~ConfirmFails(q) /\ ~Drop(q) /\ ~Abort(q)
         /\ \A e \in wire : ~Lose(e)
  <1> aborts \in Nat /\ unconfirmed \in Nat /\ drops \in Nat
    BY WorkflowAssumption, EventAssumption
    DEF CoverageBase, WorkflowInv, TypeOK, ControlTypeOK, EventTypeOK
  <1>1. /\ \A q \in Requests : ~ConfirmFails(q) /\ ~Drop(q) /\ ~Abort(q)
        /\ \A e \in wire : ~Lose(e)
    BY DEF Unfailed, ConfirmFails, Drop, Abort, Lose
  <1>2. ASSUME NEW q \in Requests, Workflow(q) \/ Handle(q)
        PROVE  Unfailed
    BY <1>1, <1>2, AbortsStep DEF Unfailed, Workflow, Handle, counts
  <1>3. ASSUME NEW q \in Requests, Announce(q)
        PROVE  Unfailed
    BY <1>3 DEF Unfailed, Proceed, vars, control, counts, Announce, Confirm,
                LoadMeta, LoadVersion, Publish, Acknowledged, GiveUp
  <1>4. ASSUME NEW e \in wire, Deliver(e)
        PROVE  Unfailed
    BY <1>4 DEF Unfailed, Deliver, vars, control, counts
  <1>5. UNCHANGED eventVars => Unfailed
    BY DEF eventVars, vars, control, counts, Unfailed
  <1>6. Unfailed
    BY <1>1, <1>2, <1>3, <1>4, <1>5, EventCases
  <1> QED
    BY <1>1, <1>6

(* An event that has been sent is not lost: it leaves the wire only for the *)
(* stream, or because the stream has it.                                    *)
LEMMA SentStays ==
  ASSUME CoverageBase, [EventNext]_eventVars, \A e \in wire : ~Lose(e),
         NEW e \in Event,
         e \in wire \/ \E i \in DOMAIN stream : stream[i] = e
  PROVE  e \in wire' \/ \E i \in DOMAIN stream' : stream'[i] = e
  <1> EventTypeOK /\ PostInv /\ stream \in Seq(Event)
    BY DEF CoverageBase, EventTypeOK
  <1>1. CASE \E i \in DOMAIN stream : stream[i] = e
    BY <1>1, StreamAfter
  <1>2. CASE e \in wire /\ ~Deliver(e)
    <2>1. ASSUME NEW q \in Requests, \/ Workflow(q) \/ Handle(q)
                                     \/ Announce(q) \/ ConfirmFails(q) \/ Drop(q)
          PROVE  wire \subseteq wire'
      BY <2>1 DEF channel, Workflow, Handle, Announce, Confirm, LoadMeta,
                  LoadVersion, Publish, Acknowledged, GiveUp, ConfirmFails, Drop
    <2>2. ASSUME NEW f \in wire, Deliver(f) PROVE e \in wire'
      BY <1>2, <2>2 DEF Deliver
    <2>3. CASE UNCHANGED eventVars
      BY <1>2, <2>3 DEF eventVars, channel
    <2> QED
      BY <1>2, <2>1, <2>2, <2>3, EventCases
  <1>3. CASE e \in wire /\ stream' = Append(stream, e)
    <2>1. stream' = Append(stream, e)
      BY <1>3
    <2>2. Len(stream) + 1 \in DOMAIN stream' /\ stream'[Len(stream) + 1] = e
      BY <2>1
    <2> QED
      BY <2>2
  <1>4. CASE e \in wire /\ Stored(e)
    <2>1. PICK i \in DOMAIN stream : stream[i].by = e.by
      BY <1>4 DEF Stored, event_id
    <2>2. stream[i] = e
      BY <1>4, <2>1 DEF PostInv, Mailed, Posted
    <2> QED
      BY <2>2, StreamAfter
  <1> QED
    BY <1>1, <1>2, <1>3, <1>4 DEF Deliver

(* As long as its version is current, a letter goes on telling of it.       *)
LEMMA TellsStep ==
  ASSUME CoverageBase, CoverageBase', [EventNext]_eventVars, Unfailed',
         NEW r \in DOMAIN meta, meta'[r].current = meta[r].current,
         NEW q \in Requests, Tells(q, r)
  PROVE  Tells(q, r)' \/ (r \in Requests /\ WillTell(r, r)')
  <1> /\ WorkflowInv /\ EventTypeOK /\ PostInv /\ StoreInv /\ StoreInv'
      /\ notice \in [Requests -> Notice] /\ letter \in [Requests -> Event]
      /\ IdsApart
    BY DEF CoverageBase, WorkflowInv, HistoryInv, EventTypeOK
  <1> DEFINE id == letter[q].entity
  <1>1. Grows
    BY WorkflowStep, WorkflowKept
  <1>2. /\ Unfailed /\ \A e \in wire : ~Lose(e)
        /\ \A p \in Requests : ~ConfirmFails(p) /\ ~Drop(p)
    BY FailuresCounted
  <1>3. notice'[q] # "none" /\ letter'[q].entity = id /\ notice[q] # "none"
    BY LetterKept DEF Tells
  <1>4. r \in ResolveMeta(letter[q].entity)'
    <2>1. PICK x : x = id
      OBVIOUS
    <2>2. r \in ResolveMeta(x)'
      BY <1>1, <2>1, ResolvedStays DEF Tells
    <2> QED
      BY <1>3, <2>1, <2>2
  <1>5. CASE letter'[q] = letter[q] /\ notice'[q] = notice[q]
    <2>1. CASE notice[q] \in {"confirm", "load"}
      BY <1>3, <1>4, <1>5, <2>1 DEF Tells
    <2>2. CASE letter[q].revision = meta[r].current /\ notice[q] \in {"read", "send"}
      BY <1>3, <1>4, <1>5, <2>2 DEF Tells
    <2>3. CASE /\ letter[q].revision = meta[r].current
               /\ \/ letter[q] \in wire
                  \/ \E i \in DOMAIN stream : stream[i] = letter[q]
      <3>1. letter[q] \in wire' \/ \E i \in DOMAIN stream' : stream'[i] = letter[q]
        BY <1>2, <2>3, SentStays
      <3> QED
        BY <1>3, <1>4, <1>5, <2>3, <3>1 DEF Tells
    <2> QED
      BY <2>1, <2>2, <2>3 DEF Tells
  <1>6. CASE Confirm(q)
    BY <1>3, <1>4, <1>6 DEF Confirm, Proceed, Tells
  <1>7. CASE LoadMeta(q)
    <2>1. r \in ResolveMeta(letter[q].entity)
      BY DEF Tells
    <2>2. PICK s \in ResolveMeta(letter[q].entity) :
            /\ letter' = [letter EXCEPT ![q].record = s,
                                        ![q].revision = meta[s].current]
            /\ notice' = [notice EXCEPT ![q] = "read"]
      BY <1>7, <2>1 DEF LoadMeta, Proceed
    <2>3. s = r
      BY <2>1, OneResolved
    <2>4. letter'[q].revision = meta[r].current
      <3>1. letter'[q] = [letter[q] EXCEPT !.record = s,
                                           !.revision = meta[s].current]
        BY <2>2
      <3> QED
        BY <2>3, <3>1, EventUpdate
    <2> QED
      BY <1>3, <1>4, <2>2, <2>4 DEF Tells
  <1>8. CASE LoadVersion(q)
    <2>1. /\ letter[q].record \in ResolveMeta(letter[q].entity)
          /\ WasCurrent(letter[q].record, letter[q].revision)
          /\ notice[q] = "read"
      BY <1>8 DEF LoadVersion, CoverageBase, Truth, LetterTrue
    <2>2. letter[q].record = r
      BY <2>1, OneResolved DEF Tells
    <2>3. letter[q].revision = meta[r].current
      <3>1. letter[q] \notin wire /\ \A i \in DOMAIN stream : stream[i] # letter[q]
        BY <2>1 DEF PostInv, Mailed, Posted
      <3> QED
        BY <2>1, <3>1 DEF Tells
    <2>4. CASE VersionsOf(r) = {}
      <3>1. r \in Requests /\ pc[r] \in {"insertFirst", "aborted"}
        BY <2>4 DEF CoverageBase, VersionlessOnlyByCreate
      <3>2. pc[r] = "insertFirst"
        BY <1>2, <3>1 DEF CoverageBase, Outcomes, Unfailed
      <3>3. pc' = pc
        BY <1>8 DEF LoadVersion, Proceed, vars, control
      <3> QED
        BY <3>1, <3>2, <3>3 DEF WillTell
    <2>5. CASE VersionsOf(r) # {}
      <3>1. GetVersion(letter[q].record, letter[q].revision) # {}
        BY <2>1, <2>2, <2>5 DEF WasCurrent, IsPublished
      <3>2. PICK d \in GetVersion(letter[q].record, letter[q].revision) :
              /\ letter' = [letter EXCEPT
                              ![q].revision = versions[d].version,
                              ![q].title = versions[d].content[Title]]
              /\ notice' = [notice EXCEPT ![q] = "send"]
        BY <1>8, <3>1 DEF LoadVersion, Proceed
      <3>3. letter'[q] = [letter[q] EXCEPT
                            !.revision = versions[d].version,
                            !.title = versions[d].content[Title]]
        BY <3>2
      <3>4. letter'[q].revision = versions[d].version
        BY <3>3, EventUpdate
      <3>5. letter'[q].revision = meta'[r].current
        BY <2>3, <3>4 DEF GetVersion
      <3> QED
        BY <1>3, <1>4, <3>2, <3>5 DEF Tells
    <2> QED
      BY <2>4, <2>5
  <1>9. CASE Publish(q)
    <2>1. letter'[q] \in wire'
      BY <1>9, PublishSends
    <2>2. letter'[q].revision = meta[r].current
      <3>1. letter[q] \notin wire /\ \A i \in DOMAIN stream : stream[i] # letter[q]
        BY <1>9, PublishSends DEF PostInv, Mailed, Posted
      <3> QED
        BY <1>9, <3>1, PublishSends DEF Tells
    <2> QED
      BY <1>3, <1>4, <2>1, <2>2 DEF Tells
  <1>10. CASE Acknowledged(q) \/ GiveUp(q)
    BY <1>3, <1>4, <1>10 DEF Acknowledged, GiveUp, Proceed, channel, Tells
  <1>11. ASSUME NEW p \in Requests, Workflow(p) \/ Handle(p)
         PROVE  letter'[q] = letter[q] /\ notice'[q] = notice[q]
    <2>1. CASE p = q
      <3>1. ~Handle(q)
        BY <1>3, ServedInFlight, StepsNotDone DEF Handle, EventTypeOK
      <3> QED
        BY <1>11, <2>1, <3>1 DEF Workflow
    <2>2. CASE p # q
      BY <1>11, <2>2 DEF Workflow, Handle
    <2> QED
      BY <2>1, <2>2
  <1>12. ASSUME NEW p \in Requests \ {q},
                Announce(p) \/ ConfirmFails(p) \/ Drop(p)
         PROVE  letter'[q] = letter[q] /\ notice'[q] = notice[q]
    BY <1>12 DEF Announce, Confirm, LoadMeta, LoadVersion, Publish, Acknowledged,
                 GiveUp, ConfirmFails, Drop, Proceed
  <1>13. ASSUME NEW e \in wire, Deliver(e) \/ Lose(e)
         PROVE  letter' = letter /\ notice' = notice
    BY <1>13 DEF Deliver, Lose
  <1> QED
    BY <1>2, <1>5, <1>6, <1>7, <1>8, <1>9, <1>10, <1>11, <1>12, <1>13, EventCases
    DEF Announce, eventVars

LEMMA UntoldStep ==
  ASSUME CoverageBase, CoverageBase', [EventNext]_eventVars,
         NEW r \in DOMAIN meta, meta'[r].current = meta[r].current, Untold(r),
         ~Untold(r)'
  PROVE  \E q \in Requests : Tells(q, r)'
  <1> /\ EventTypeOK /\ PostInv /\ WorkflowInv /\ StoreInv' /\ IdsApart
    BY DEF CoverageBase, WorkflowInv, HistoryInv
  <1>1. Grows
    BY WorkflowStep, WorkflowKept
  <1>2. PICK q \in Requests : /\ notice'[q] # "none"
                              /\ r \in ResolveMeta(letter[q].entity)'
    BY DEF Untold
  <1>3. CASE notice[q] = "none"
    BY <1>2, <1>3, LetterBegun DEF Tells
  <1>4. CASE notice[q] # "none"
    <2>1. PICK id : id = letter[q].entity
      OBVIOUS
    <2>2. letter'[q].entity = id
      BY <1>4, <2>1, LetterKept
    <2>3. r \in ResolveMeta(id)' /\ ResolveMeta(id) # {}
      BY <1>2, <1>4, <2>1, <2>2 DEF PostInv, Enveloped
    <2>4. r \in ResolveMeta(id)
      BY <1>1, <2>3, StaysResolved
    <2> QED
      BY <1>4, <2>1, <2>4 DEF Untold
  <1> QED
    BY <1>3, <1>4

LEMMA CoverageStep ==
  ASSUME CoverageBase, Coverage, [EventNext]_eventVars
  PROVE  Coverage'
  <1> SUFFICES ASSUME Unfailed', NEW r \in DOMAIN meta' PROVE Told(r)'
    BY DEF Coverage
  <1>1. CoverageBase'
    BY CoverageBaseStep
  <1>2. Unfailed /\ \A q \in Requests : ~Abort(q)
    BY FailuresCounted
  <1> /\ TypeOK /\ HistoryInv /\ \A q \in Requests : RequestInv(q)
    BY DEF CoverageBase, WorkflowInv, HistoryInv
  <1>3. CASE r \notin DOMAIN meta
    <2>1. ~UNCHANGED vars
      BY <1>3 DEF vars, store
    <2>2. PICK q \in Requests : Arrive(q) \/ Serve(q) \/ Abort(q)
      BY <2>1, WorkflowStep DEF Next
    <2>3. CreateInsertMeta(q) /\ pc'[q] = "insertFirst"
      BY <1>3, <2>2, NewRecord
    <2>4. DOMAIN meta' \subseteq DOMAIN meta \cup {q}
      BY <2>3 DEF CreateInsertMeta, InsertMeta, Refuse, store
    <2> QED
      BY <1>3, <2>3, <2>4 DEF Told, WillTell
  <1>4. CASE r \in DOMAIN meta /\ meta'[r].current # meta[r].current
    <2>1. ~UNCHANGED vars
      BY <1>4 DEF vars, store
    <2>2. PICK q \in Requests : /\ Workflow(q) \/ Handle(q)
      BY <2>1, EventCases
      DEF eventVars, Announce, Confirm, LoadMeta, LoadVersion, Publish,
          Acknowledged, GiveUp, ConfirmFails, Drop, Deliver, Lose, Proceed
    <2>3. Arrive(q) \/ Serve(q) \/ Abort(q)
      BY <2>2 DEF Workflow, Handle
    <2>4. PointMeta(q) /\ r = reg[q].record
      BY <1>4, <2>3, PointerStep DEF RequestInv, Fresh
    <2>5. Handle(q)
      <3>1. ~Arrive(q)
        BY <2>4 DEF PointMeta, Arrive, StartCreate, StartPatch, StartAccept,
                    StartReject, StartRetract, StartSetCurrent, Start
      <3> QED
        BY <1>2, <2>2, <3>1 DEF Workflow
    <2> QED
      BY <2>4, <2>5, PointTells DEF Told
  <1>5. CASE r \in DOMAIN meta /\ meta'[r].current = meta[r].current
    <2>1. CASE Untold(r)
      BY <1>1, <1>5, <2>1, UntoldStep DEF Told
    <2>2. ASSUME NEW q \in Requests, WillTell(q, r)
          PROVE  Told(r)'
      BY <1>1, <1>5, <2>2, WillTellStep DEF Told, Unfailed
    <2>3. ASSUME NEW q \in Requests, Tells(q, r)
          PROVE  Told(r)'
      BY <1>1, <1>5, <2>3, TellsStep DEF Told
    <2> QED
      BY <1>2, <1>5, <2>1, <2>2, <2>3 DEF Coverage, Told
  <1> QED
    BY <1>3, <1>4, <1>5

(* When all has been answered, sent and stored and nothing has failed, the  *)
(* stream holds the version current in every system, however mutations of   *)
(* one system and their announcements overtook each other.                  *)
THEOREM CurrentAlwaysAnnounced ==
  ASSUME IdsApart
  PROVE  EventSpec => []CurrentAnnounced
  <1>1. EventInit => CoverageBase /\ Coverage
    <2> SUFFICES ASSUME EventInit PROVE CoverageBase /\ Coverage
      OBVIOUS
    <2>1. Init /\ WorkflowInv /\ EditorialInv /\ EventTypeOK
      BY WorkflowInit, EditorialInit, EventInitType DEF EventInit
    <2>2. VersionlessOnlyByCreate /\ Outcomes
      BY <2>1 DEF Init, StoreInit, VersionlessOnlyByCreate, VersionsOf, Outcomes
    <2>3. Truth
      BY DEF EventInit, Truth, LetterTrue, EventsFaithful
    <2>4. PostInv
      BY DEF EventInit, PostInv, Mailed, Enveloped, Letter
    <2>5. \A r \in DOMAIN meta : Untold(r)
      BY DEF EventInit, Init, StoreInit, Untold
    <2> QED
      BY <2>1, <2>2, <2>3, <2>4, <2>5 DEF CoverageBase, Coverage, Told
  <1>2. CoverageBase /\ Coverage /\ [EventNext]_eventVars
          => CoverageBase' /\ Coverage'
    BY CoverageBaseStep, CoverageStep
  <1>3. CoverageBase /\ Coverage => CurrentAnnounced
    <2> SUFFICES ASSUME CoverageBase, Coverage, AllOver, Unfailed,
                        NEW r \in DOMAIN meta
                 PROVE  \/ r = Seed /\ meta[r].current = 1 /\ About(r) = {}
                        \/ \E i \in About(r) : stream[i].revision = meta[r].current
      BY DEF CurrentAnnounced, Unfailed
    <2> EventTypeOK /\ PostInv
      BY DEF CoverageBase
    <2>1. CASE Untold(r)
      <3>1. ASSUME NEW i \in DOMAIN stream PROVE i \notin About(r)
        <4>1. stream[i].by \in Requests
          <5>1. stream \in Seq(Event)
            BY DEF EventTypeOK
          <5>2. stream[i] \in Event
            BY <5>1
          <5> QED
            BY <5>2 DEF Event
        <4>2. /\ stream[i] = letter[stream[i].by]
              /\ notice[stream[i].by] # "none"
          BY DEF PostInv, Mailed, Posted
        <4> QED
          BY <2>1, <4>1, <4>2 DEF Untold, About
      <3> QED
        BY <2>1, <3>1 DEF Untold, About
    <2>2. ASSUME NEW q \in Requests, WillTell(q, r)
          PROVE  FALSE
      BY <2>2 DEF WillTell, AllOver, Finished, InFlight, Steps, CreateSteps,
                  AcceptSteps
    <2>3. ASSUME NEW q \in Requests, Tells(q, r)
          PROVE  \E i \in About(r) : stream[i].revision = meta[r].current
      BY <2>3 DEF Tells, AllOver, Announcing, About
    <2> QED
      BY <2>1, <2>2, <2>3 DEF Coverage, Told
  <1> QED
    BY <1>1, <1>2, <1>3, PTL DEF EventSpec
=============================================================================
