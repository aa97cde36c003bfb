-------------------------- MODULE NotificationFeed --------------------------
(***************************************************************************)
(* Notifications of the web console: a stream of the gateway compares the  *)
(* phases of the resources of a namespace with those of its last poll      *)
(* (routers/chat.py), the console adds what it is told to a list of its    *)
(* own and keeps a list for every namespace in the storage of the browser  *)
(* (contexts/NotificationContext.tsx, lib/api.ts).                         *)
(*                                                                         *)
(* React is external: a state setter queues an update, a render applies    *)
(* the queue in order, and the effects of a render run before the next     *)
(* one.  There is one resource in a namespace.  What a notification says,  *)
(* its read flag, the toasts and polls that fail are left out.  The user   *)
(* acts on a page that has settled; other tabs have storages of their own  *)
(* here.                                                                   *)
(***************************************************************************)
EXTENDS FiniteSets, Naturals, Sequences

CONSTANTS
  Namespaces,
  ResourcePhases, \* of a resource, "gone" if there is none
  MaxShown,     \* MAX_NOTIFICATIONS
  MaxEvents     \* bound of the model: what users, networks and resources do

None == "none"
AllEffects == {"load", "save", "stream"}

ASSUME FeedAssumption ==
  /\ MaxShown \in Nat \ {0} /\ MaxEvents \in Nat
  /\ None \notin Namespaces /\ None \notin ResourcePhases

VARIABLES
  phase,     \* of the resource of every namespace
  chosen,    \* the namespace that the user has chosen
  shownIn,   \* the namespace of the last render
  effects,   \* effects of the last render that have not run
  feed,      \* notifications, the newest first
  next,      \* the feed, once the updates in the queue are applied
  due,       \* there is an update in the queue
  storage,   \* the storage of the browser
  stream,    \* the stream: the phase it saw last, what is on its way, and (history) the phase
             \* it saw first and how many events had been sent before
  sent,      \* how many events the gateway has sent: their timestamps
  happened,  \* bound of the model: changes so far
  kept       \* history: events received for the namespace shown and not cleared since

page == <<shownIn, effects, feed, next, due>>
feedVars == <<phase, chosen, page, storage, stream, sent, happened, kept>>

Events == [namespace : Namespaces, phase : ResourcePhases, time : Nat]

Stream(ns, since) ==
  [namespace |-> ns, last |-> None, wire |-> <<>>, first |-> None, since |-> since]
Closed == Stream(None, 0)
Settled == effects = {} /\ ~due /\ chosen = shownIn
Change == happened < MaxEvents /\ happened' = happened + 1

FeedTypeOK ==
  /\ phase \in [Namespaces -> ResourcePhases]
  /\ {chosen, shownIn} \subseteq Namespaces
  /\ effects \in {{}, AllEffects, {"save"}, {"stream"}}
  /\ feed \in Seq(Events) /\ next \in Seq(Events) /\ due \in BOOLEAN
  /\ storage \in [Namespaces -> Seq(Events)]
  /\ stream \in [namespace : Namespaces \cup {None}, last : ResourcePhases \cup {None},
                 wire : Seq(Events), first : ResourcePhases \cup {None}, since : Nat]
  /\ sent \in Nat /\ happened \in Nat
  /\ kept \in [Namespaces -> SUBSET Events]

FeedInit ==
  /\ phase \in [Namespaces -> ResourcePhases]
  /\ chosen \in Namespaces /\ shownIn = chosen /\ effects = AllEffects
  /\ feed = <<>> /\ next = <<>> /\ due = FALSE
  /\ storage = [ns \in Namespaces |-> <<>>]
  /\ stream = Closed /\ sent = 0 /\ happened = 0
  /\ kept = [ns \in Namespaces |-> {}]

-----------------------------------------------------------------------------
\* Mutant of Noticed: the loop over what was deleted is missing.
NoticedIfPresent(before, now) == before \notin {None, now} /\ now # "gone"

\* Nothing is noticed by the first poll of a stream.
Noticed(before, now) == before \notin {None, now}

\* One round of notification_generator.
Poll ==
  LET ns == stream.namespace IN
  /\ ns # None
  /\ IF Noticed(stream.last, phase[ns])
     THEN /\ sent' = sent + 1
          /\ stream' = [stream EXCEPT !.last = phase[ns],
               !.wire = Append(@, [namespace |-> ns, phase |-> phase[ns], time |-> sent'])]
     ELSE /\ stream' = [stream EXCEPT !.last = phase[ns],
                                      !.first = IF @ = None THEN phase[ns] ELSE @]
          /\ UNCHANGED sent
  /\ UNCHANGED <<phase, chosen, page, storage, happened, kept>>

Contains(list, event) == \E i \in DOMAIN list : list[i] = event

Added(list, event) ==
  IF Contains(list, event) THEN list
  ELSE SubSeq(<<event>> \o list, 1, IF Len(list) < MaxShown THEN Len(list) + 1 ELSE MaxShown)

\* handleEvent is called twice, as the listener of the type and as onmessage.
Receive ==
  LET event == Head(stream.wire) IN
  /\ stream.wire # <<>>
  /\ next' = Added(Added(next, event), event) /\ due' = TRUE
  /\ stream' = [stream EXCEPT !.wire = Tail(@)]
  /\ kept' = IF chosen = shownIn /\ event.namespace = shownIn
             THEN [kept EXCEPT ![shownIn] = @ \cup {event}] ELSE kept
  /\ UNCHANGED <<phase, chosen, shownIn, effects, feed, storage, sent, happened>>

\* The connection breaks, or the gateway closes it.  Nothing opens it again.
Lose ==
  /\ stream # Closed /\ stream' = Closed
  /\ Change
  /\ UNCHANGED <<phase, chosen, page, storage, sent, kept>>

-----------------------------------------------------------------------------
Render ==
  /\ effects = {}
  /\ due \/ chosen # shownIn
  /\ feed' = next /\ due' = FALSE /\ shownIn' = chosen
  /\ effects' = IF chosen # shownIn THEN AllEffects ELSE {e \in {"save"} : next # feed}
  /\ UNCHANGED <<phase, chosen, next, storage, stream, sent, happened, kept>>

\* Mutant of LoadedFrom: the feed is saved before the stored one is loaded.
LoadedAfterSave == [storage EXCEPT ![shownIn] = feed]

LoadedFrom == storage

\* The effects run in the order of the code: the feed of a namespace is loaded, then the one
\* still shown is saved under its name, until a render has the loaded one saved.
RunEffects ==
  /\ effects # {} /\ effects' = {}
  /\ IF "load" \in effects THEN next' = LoadedFrom[shownIn] /\ due' = TRUE
     ELSE UNCHANGED <<next, due>>
  /\ storage' = IF "save" \in effects THEN [storage EXCEPT ![shownIn] = feed] ELSE storage
  /\ stream' = IF "stream" \in effects THEN Stream(shownIn, sent) ELSE stream
  /\ UNCHANGED <<phase, chosen, shownIn, feed, sent, happened, kept>>

-----------------------------------------------------------------------------
Turn(ns) ==
  /\ Settled /\ ns # chosen /\ chosen' = ns
  /\ Change
  /\ UNCHANGED <<phase, page, storage, stream, sent, kept>>

\* clearAll
Clear ==
  /\ Settled /\ feed # <<>> /\ next' = <<>> /\ due' = TRUE
  /\ kept' = [kept EXCEPT ![chosen] = {}]
  /\ Change
  /\ UNCHANGED <<phase, chosen, shownIn, effects, feed, storage, stream, sent>>

\* A refresh has given the console another token: the stream is opened again.
RenewToken ==
  /\ Settled /\ effects' = {"stream"}
  /\ Change
  /\ UNCHANGED <<phase, chosen, shownIn, feed, next, due, storage, stream, sent, kept>>

\* The page is loaded again, in any namespace.
Reload(ns) ==
  /\ Settled /\ chosen' = ns /\ shownIn' = ns /\ effects' = AllEffects
  /\ feed' = storage[ns] /\ next' = storage[ns] /\ stream' = Closed
  /\ Change
  /\ UNCHANGED <<phase, due, storage, sent, kept>>

PhaseChanges(ns) ==
  /\ \E p \in ResourcePhases \ {phase[ns]} : phase' = [phase EXCEPT ![ns] = p]
  /\ Change
  /\ UNCHANGED <<chosen, page, storage, stream, sent, kept>>

FeedNext ==
  \/ Poll \/ Receive \/ Lose \/ Render \/ RunEffects \/ Clear \/ RenewToken
  \/ \E ns \in Namespaces : Turn(ns) \/ Reload(ns) \/ PhaseChanges(ns)

FeedSpec == FeedInit /\ [][FeedNext]_feedVars

-----------------------------------------------------------------------------
Shown(list) == {list[i] : i \in DOMAIN list}

IsNewest(list, events) ==
  /\ Len(list) = IF Cardinality(events) < MaxShown THEN Cardinality(events) ELSE MaxShown
  /\ \A i, j \in DOMAIN list : i < j => list[i].time > list[j].time
  /\ Shown(list) \subseteq events
  /\ \A e \in events \ Shown(list) : list[Len(list)].time > e.time

\* Whatever namespaces the user has turned to and back and however often the page was loaded,
\* every namespace has its own newest notifications, each once, on the page and in the storage.
FeedsAreKept ==
  Settled => /\ IsNewest(feed, kept[shownIn])
             /\ \A ns \in Namespaces : IsNewest(storage[ns], kept[ns])

\* Once what is on its way has arrived, the newest notification of a stream has the phase that
\* the gateway saw last, and without one the phase is still the first that it saw.
LastChangeIsReported ==
  Settled /\ stream.wire = <<>> /\ stream.last # None =>
    /\ feed # <<>> /\ feed[1].time > stream.since => feed[1].phase = stream.last
    /\ sent = stream.since => stream.last = stream.first
=============================================================================
