----------------------- MODULE ChangeEventsProperties -----------------------
(***************************************************************************)
(* What consumers of the change events can rely on.                        *)
(***************************************************************************)
EXTENDS ChangeEvents, VersioningInvariant

(* Every event, sent or in preparation, is well formed; a request announces *)
(* only once it has been answered by the workflow.                          *)
EventTypeOK ==
    /\ notice \in [Requests -> Notice]
    /\ letter \in [Requests -> Event]
    /\ wire \subseteq Event
    /\ stream \in Seq(Event)
    /\ unconfirmed \in 0 .. MaxUnconfirmed /\ drops \in 0 .. MaxDrops
    /\ \A q \in Requests : notice[q] # "none" => pc[q] = "done"

(* publishSystemChange takes revision and title from one version, and the   *)
(* versions never change.                                                   *)
TellsTruth(e) ==
    \E r \in ResolveMeta(e.entity) :
      \E d \in GetVersion(r, e.revision) :
        /\ versions[d].state # "submitted"
        /\ versions[d].content[Title] = e.title

(* A stored event names one system and a version of it that was published,  *)
(* by its number and by its own title, whatever was published, rolled back  *)
(* or decided while the event was on its way.                               *)
EventsFaithful == \A i \in DOMAIN stream : TellsTruth(stream[i])

(* All the stream holds about one mutation is one event, under one id, even *)
(* when the duplicate window has let a copy of it through: a consumer that  *)
(* remembers the ids it has handled sees each mutation once, and no two     *)
(* events about it disagree. The publisher is fail-open: it never sends     *)
(* again an event whose acknowledgement it has not waited for.              *)
OneEventPerMutation ==
    \A i, j \in DOMAIN stream :
        stream[i].by = stream[j].by => stream[i] = stream[j]

(* When everything has been answered, sent and stored, the version current  *)
(* now is in the stream, however mutations and their announcements          *)
(* overlapped, if no request and no message failed: a consumer of the whole *)
(* stream has seen the current title. The seed's first version was          *)
(* announced before the behaviour began.                                    *)
About(r) == {i \in DOMAIN stream : r \in ResolveMeta(stream[i].entity)}

CurrentAnnounced ==
    AllOver /\ aborts = 0 /\ unconfirmed = 0 /\ drops = 0 =>
      \A r \in DOMAIN meta :
        \/ r = Seed /\ meta[r].current = 1 /\ About(r) = {}
        \/ \E i \in About(r) : stream[i].revision = meta[r].current

(* Publishing is fail-open: a handler that has committed its mutation goes  *)
(* on to answer even when the broker never does.                            *)
BrokerNeverBlocks ==
    \A q \in Requests : notice[q] \in Announcing ~> notice[q] = "over"
=============================================================================
