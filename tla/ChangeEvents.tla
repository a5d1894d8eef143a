---------------------------- MODULE ChangeEvents ----------------------------
(***************************************************************************)
(* The change events of the service: what the handlers of Versioning do    *)
(* after a mutation that may have moved a current pointer (the end of      *)
(* createGameSystem, patchGameSystem, acceptGameSystemVersion and          *)
(* setCurrentGameSystemVersion, and publishSystemChange, in                *)
(* server/game_systems.go), the publisher (internal/events/publisher.go)   *)
(* and the JetStream stream it publishes to.                               *)
(*                                                                         *)
(* Announcing is not part of the mutation: the handler reads what is       *)
(* current again, later, and sends it; others mutate and announce in the   *)
(* meantime. A message that has been sent may be stored late, out of       *)
(* order, twice (the stream discards a message whose id it has seen, for a *)
(* while) or never; the handler waits a bounded time for the answer.       *)
(***************************************************************************)
EXTENDS Versioning, Sequences

CONSTANTS Title,           \* the field whose value an event carries: name
          MaxUnconfirmed,  \* bound: final reads that fail in a behaviour
          MaxDrops,        \* bound: announcements dropped or messages lost
          MaxLate          \* bound: copies stored after the duplicate window

ASSUME EventAssumption ==
    /\ Title \in Fields /\ MaxUnconfirmed \in Nat
    /\ MaxDrops \in Nat /\ MaxLate \in Nat

VARIABLES notice,       \* request -> the step its announcement is at
          letter,       \* request -> the event it is putting together
          wire,         \* events sent, not known to the stream for certain
          stream,       \* events the stream has stored, in its order
          unconfirmed,  \* final reads that failed so far
          drops         \* announcements dropped and messages lost so far

channel == <<wire, stream>>
counts  == <<unconfirmed, drops>>
eventVars == <<vars, notice, letter, channel, counts>>

Announcing == {"confirm", "load", "read", "send", "await"}
Notice     == Announcing \cup {"none", "over"}

(* by, nth: the request and which of its publishes this is: each draws a    *)
(* new event_id, which is also the message id; entity: what was put in      *)
(* entity_id; record: the record it was found to name.                      *)
Event == [by : Requests, nth : Nat, entity : SystemIds,
          action : {"created", "updated"}, record : ObjectIds, revision : Nat,
          title : Values]

event_id(e) == <<e.by, e.nth>>

Letter(q, entity, action) ==
    [by |-> q, nth |-> 0, entity |-> entity, action |-> action, record |-> Seed,
     revision |-> NoVersion, title |-> Blank[Title]]

EventInit ==
    /\ Init
    /\ notice = [q \in Requests |-> "none"]
    /\ letter = [q \in Requests |-> Letter(q, MetaId(Seed), "updated")]
    /\ wire = {} /\ stream = <<>>
    /\ unconfirmed = 0 /\ drops = 0

-----------------------------------------------------------------------------
(* The end of a handler.                                                    *)

(* Variant: a rollback is not announced.                                    *)
AnnouncesAllButRollback(j) ==
    j.op \in {"create", "accept"} \/ (j.op = "patch" /\ j.user \in Editors)

(* What is announced when it succeeds: all that may move a pointer, a       *)
(* rollback to what is already current included.                            *)
Announces(j) ==
    \/ j.op \in {"create", "accept", "setCurrent"}
    \/ j.op = "patch" /\ PatchState(j.user) = "live"

(* entity_id: the new record's `_id`, or the id as it stood in the URL.     *)
Letterhead(q) ==
    IF job[q].op = "create" THEN Letter(q, MetaId(q), "created")
    ELSE Letter(q, job[q].id, "updated")

(* POST and PATCH read the system once more for their response first, and   *)
(* answer 500 without announcing anything when that read fails.             *)
FirstNotice(j) == IF j.op \in {"create", "patch"} THEN "confirm" ELSE "load"

(* Variant: the handler does not look at the error it got.                  *)
HandleUnchecked(q) ==
    /\ Serve(q)
    /\ IF pc'[q] \in Answers /\ Announces(job[q])
       THEN /\ notice' = [notice EXCEPT ![q] = FirstNotice(job[q])]
            /\ letter' = [letter EXCEPT ![q] = Letterhead(q)]
       ELSE UNCHANGED <<notice, letter>>
    /\ UNCHANGED <<channel, counts>>

Handle(q) ==
    /\ Serve(q)
    /\ IF pc'[q] = "done" /\ Announces(job[q])
       THEN /\ notice' = [notice EXCEPT ![q] = FirstNotice(job[q])]
            /\ letter' = [letter EXCEPT ![q] = Letterhead(q)]
       ELSE UNCHANGED <<notice, letter>>
    /\ UNCHANGED <<channel, counts>>

Proceed(q, step) ==
    /\ notice' = [notice EXCEPT ![q] = step]
    /\ UNCHANGED vars

Confirm(q) ==
    /\ notice[q] = "confirm"
    /\ Proceed(q, "load")
    /\ UNCHANGED <<letter, channel, counts>>

ConfirmFails(q) ==
    /\ notice[q] = "confirm"
    /\ unconfirmed < MaxUnconfirmed
    /\ unconfirmed' = unconfirmed + 1
    /\ Proceed(q, "over")
    /\ UNCHANGED <<letter, channel, drops>>

-----------------------------------------------------------------------------
(* publishSystemChange: Get, then the publisher.                            *)

LoadMeta(q) ==
    /\ notice[q] = "load"
    /\ IF ResolveMeta(letter[q].entity) = {}
       THEN Proceed(q, "over") /\ UNCHANGED letter
       ELSE \E r \in ResolveMeta(letter[q].entity) :
              /\ letter' = [letter EXCEPT ![q].record = r,
                                          ![q].revision = meta[r].current]
              /\ Proceed(q, "read")
    /\ UNCHANGED <<channel, counts>>

(* Variant: the revision is the pointer's value by now, not the number of   *)
(* the version whose title is taken.                                        *)
LoadVersionOnly(q) ==
    LET r == letter[q].record
        found == GetVersion(r, letter[q].revision)
    IN  /\ notice[q] = "read"
        /\ \E d \in found :
             letter' = [letter EXCEPT ![q].revision = meta[r].current,
                                      ![q].title = versions[d].content[Title]]
        /\ Proceed(q, "send")
        /\ UNCHANGED <<channel, counts>>

LoadVersion(q) ==
    LET found == GetVersion(letter[q].record, letter[q].revision)
    IN  /\ notice[q] = "read"
        /\ IF found = {}
           THEN Proceed(q, "over") /\ UNCHANGED letter
           ELSE \E d \in found :
                  /\ letter' = [letter EXCEPT
                                  ![q].revision = versions[d].version,
                                  ![q].title = versions[d].content[Title]]
                  /\ Proceed(q, "send")
        /\ UNCHANGED <<channel, counts>>

Publish(q) ==
    /\ notice[q] = "send"
    /\ letter' = [letter EXCEPT ![q].nth = letter[q].nth + 1]
    /\ wire' = wire \cup {letter'[q]}
    /\ Proceed(q, "await")
    /\ UNCHANGED <<stream, counts>>

Stored(e) == \E i \in DOMAIN stream : event_id(stream[i]) = event_id(e)

Acknowledged(q) ==
    /\ notice[q] = "await"
    /\ Stored(letter[q])
    /\ Proceed(q, "over")
    /\ UNCHANGED <<letter, channel, counts>>

(* Variant: the publisher waits for the stream's answer.                    *)
WaitForStream(q) == Acknowledged(q)

(* Variant: an event that was not acknowledged in time is published again.  *)
GiveUpAndRetry(q) ==
    /\ notice[q] = "await"
    /\ Proceed(q, "send")
    /\ UNCHANGED <<letter, channel, counts>>

(* The bounded wait ends, or the client's context: the event is logged as   *)
(* dropped although its message may still be stored.                        *)
GiveUp(q) ==
    /\ notice[q] = "await"
    /\ Proceed(q, "over")
    /\ UNCHANGED <<letter, channel, counts>>

(* A failed read in publishSystemChange, a failed send, a dying replica.    *)
Drop(q) ==
    /\ notice[q] \in {"load", "read", "send"}
    /\ drops < MaxDrops
    /\ drops' = drops + 1
    /\ Proceed(q, "over")
    /\ UNCHANGED <<letter, channel, unconfirmed>>

-----------------------------------------------------------------------------
(* The broker (external): a message may be delivered more than once. The    *)
(* stream stores it the first time, discards it within the duplicate window *)
(* and stores it again after it.                                            *)

Late == Len(stream) - Cardinality({event_id(stream[i]) : i \in DOMAIN stream})

Deliver(e) ==
    /\ \/ Stored(e) /\ UNCHANGED stream
       \/ /\ Stored(e) => Late < MaxLate
          /\ stream' = Append(stream, e)
    /\ wire' \in {wire, wire \ {e}}
    /\ UNCHANGED <<vars, notice, letter, counts>>

Lose(e) ==
    /\ drops < MaxDrops
    /\ drops' = drops + 1
    /\ wire' = wire \ {e}
    /\ UNCHANGED <<vars, notice, letter, stream, unconfirmed>>

-----------------------------------------------------------------------------
Workflow(q) ==
    /\ Arrive(q) \/ Abort(q)
    /\ UNCHANGED <<notice, letter, channel, counts>>

Announce(q) == \/ Confirm(q) \/ LoadMeta(q) \/ LoadVersion(q) \/ Publish(q)
               \/ Acknowledged(q) \/ GiveUp(q)

AllOver == /\ Finished /\ wire = {}
           /\ \A q \in Requests : notice[q] \notin Announcing

EventNext ==
    \/ \E q \in Requests :
         Workflow(q) \/ Handle(q) \/ Announce(q) \/ ConfirmFails(q) \/ Drop(q)
    \/ \E e \in wire : Deliver(e) \/ Lose(e)
    \/ AllOver /\ UNCHANGED eventVars

EventSpec == EventInit /\ [][EventNext]_eventVars

(* Each request runs on a goroutine of its own, the driver's calls return   *)
(* and the publisher's timer expires: what has arrived is served. Arrivals, *)
(* failures and the broker are the environment's and are not fair.          *)
HandlersFair ==
    EventSpec /\ \A q \in Requests : WF_eventVars(Handle(q) \/ Announce(q))
=============================================================================
