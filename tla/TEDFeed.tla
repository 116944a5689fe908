------------------------------- MODULE TEDFeed -------------------------------
(***************************************************************************)
(* How a change of GoBGP's BGP-LS table reaches Server.ted:                *)
(* internal/gobgp/interface.go (MonitorBGPLsEvents and its Debouncer), the *)
(* unbuffered channel of cmd/polad, and the goroutine of NewPCE that       *)
(* builds a TED and publishes it.  A table is named by its version; what   *)
(* a TED is built of is left out.                                          *)
(***************************************************************************)
EXTENDS Integers, FiniteSets

CONSTANTS Workers,      \* goroutines that Trigger may start
          MaxUpdates,   \* bound: changes of the table
          FetchFails,   \* GetBGPlsNLRIs may return an error
          StreamBreaks, \* Recv may return an error
          StreamEnds    \* Recv may return io.EOF

ASSUME FeedAssumption ==
    /\ MaxUpdates \in Nat
    /\ {FetchFails, StreamBreaks, StreamEnds} \subseteq BOOLEAN

VARIABLES
    rib,       \* external: version of GoBGP's table
    stream,    \* external: table events sent to the watch stream, not received
    monitor,   \* where MonitorBGPLsEvents stands
    synced,    \* the version initialSync has fetched
    active,    \* Debouncer.active
    recent,    \* a trigger came less than the cooldown ago (Debouncer.last)
    worker,    \* per debounce goroutine: where it stands
    fetched,   \* per debounce goroutine: the version it fetched
    builder,   \* where the goroutine of NewPCE stands
    building,  \* the version it builds a TED from
    ted,       \* version of Server.ted
    received,  \* history: version of the last event received
    heard      \* history: version of the last event a fetch is still to follow
               \* or has followed, 0 once that fetch has come to nothing

monitorVars == <<monitor, synced>>
debouncer   == <<active, recent, worker, fetched>>
builderVars == <<builder, building>>
history     == <<received, heard>>
vars == <<rib, stream, monitorVars, debouncer, builderVars, ted, history>>

Init ==
    /\ rib = 0 /\ stream = 0
    /\ monitor = "sync" /\ synced = 0
    /\ active = FALSE /\ recent = FALSE
    /\ worker = [w \in Workers |-> "none"]
    /\ fetched = [w \in Workers |-> 0]
    /\ builder = "receive" /\ building = 0
    /\ ted = 0
    /\ received = 0 /\ heard = 0

(* External: the table changes; an established watch stream gets an event. *)
TableChanges ==
    /\ rib < MaxUpdates
    /\ rib' = rib + 1
    /\ stream' = IF monitor = "receive" THEN stream + 1 ELSE stream
    /\ UNCHANGED <<monitorVars, debouncer, builderVars, ted, history>>

------------------------------------------------------------------------------
(* MonitorBGPLsEvents *)

(* initialSync reads the table; if that fails it is not tried again.       *)
InitialFetch ==
    /\ monitor = "sync"
    /\ monitor' = "offer"
    /\ synced' = rib
    /\ UNCHANGED <<rib, stream, debouncer, builderVars, ted, history>>

InitialFetchFails ==
    /\ FetchFails
    /\ monitor = "sync"
    /\ monitor' = "watch"
    /\ UNCHANGED <<rib, stream, synced, debouncer, builderVars, ted, history>>

(* The goroutine of NewPCE takes what a sender offers on the channel.      *)
Take(elems) ==
    /\ builder = "receive"
    /\ builder' = "build"
    /\ building' = elems

InitialOffer ==
    /\ monitor = "offer"
    /\ Take(synced)
    /\ monitor' = "watch"
    /\ UNCHANGED <<rib, stream, synced, debouncer, ted, history>>

(* WatchEvent succeeds at some attempt: events start with the next change. *)
Watch ==
    /\ monitor = "watch"
    /\ monitor' = "receive"
    /\ stream' = 0
    /\ UNCHANGED <<rib, synced, debouncer, builderVars, ted, history>>

(* Recv returns a table event: Debouncer.Trigger.  It starts a goroutine   *)
(* unless one is active, and an active one may have read the table already.*)
Start ==
    \E w \in Workers :
       /\ worker[w] = "none"
       /\ worker' = [worker EXCEPT ![w] = "wait"]
StartAlways ==   \* mutant: the active flag is not looked at
    \/ Start
    \/ active /\ UNCHANGED worker
StartUnlessActive ==
    \/ ~active /\ Start
    \/ active /\ UNCHANGED worker

(* No goroutine has read the table without having ended since.             *)
WillFetch ==
    \/ \A w \in Workers : worker[w] = "none"
    \/ \E w \in Workers : worker[w] \in {"wait", "fetch"}

RecvPolls == monitor = "receive"      \* mutant: Recv does not wait for an event
Recv == monitor = "receive" /\ stream > 0

Trigger ==
    /\ Recv
    /\ stream' = stream - 1
    /\ recent' = TRUE
    /\ active' = TRUE
    /\ StartUnlessActive
    /\ received' = rib - stream'
    /\ heard' = IF WillFetch THEN rib - stream' ELSE heard
    /\ UNCHANGED <<rib, monitorVars, fetched, builderVars, ted>>

(* Recv fails: the events on the stream are lost, a new one is opened, and *)
(* the table is not read again.                                            *)
StreamError ==
    /\ StreamBreaks
    /\ monitor = "receive"
    /\ monitor' = "watch"
    /\ stream' = 0
    /\ UNCHANGED <<rib, synced, debouncer, builderVars, ted, history>>

(* io.EOF ends the loop for good; returning cancels the context.           *)
StreamEOF ==
    /\ StreamEnds
    /\ monitor = "receive"
    /\ stream = 0
    /\ monitor' = "ended"
    /\ UNCHANGED <<rib, stream, synced, debouncer, builderVars, ted, history>>

------------------------------------------------------------------------------
(* The goroutine that Trigger starts *)

(* The cooldown since the last trigger is over.                            *)
CoolDown ==
    /\ recent
    /\ recent' = FALSE
    /\ UNCHANGED <<rib, stream, monitorVars, active, worker, fetched, builderVars,
                   ted, history>>

(* The wait loop ends when the cooldown is found over.                     *)
StopWaiting(w) ==
    /\ worker[w] = "wait"
    /\ ~recent
    /\ worker' = [worker EXCEPT ![w] = "fetch"]
    /\ UNCHANGED <<rib, stream, monitorVars, active, recent, fetched, builderVars,
                   ted, history>>

FetchClears(w) ==     \* mutant: the flag is cleared before the delivery
    /\ worker[w] = "fetch"
    /\ worker' = [worker EXCEPT ![w] = "check"]
    /\ fetched' = [fetched EXCEPT ![w] = rib]
    /\ active' = FALSE
    /\ UNCHANGED <<rib, stream, monitorVars, recent, builderVars, ted, history>>
Fetch(w) ==
    /\ worker[w] = "fetch"
    /\ worker' = [worker EXCEPT ![w] = "check"]
    /\ fetched' = [fetched EXCEPT ![w] = rib]
    /\ UNCHANGED <<rib, stream, monitorVars, active, recent, builderVars, ted,
                   history>>

(* A fetch that fails is logged and not repeated.  It also fails because  *)
(* MonitorBGPLsEvents has closed the connection on its way out.            *)
FetchError(w) ==
    /\ FetchFails \/ monitor = "ended"
    /\ worker[w] = "fetch"
    /\ worker' = [worker EXCEPT ![w] = "leave"]
    /\ heard' = 0
    /\ UNCHANGED <<rib, stream, monitorVars, active, recent, fetched, builderVars,
                   ted, received>>

(* The context is looked at once more, then deliver selects.               *)
StillWanted(w) ==
    /\ worker[w] = "check"
    /\ monitor # "ended"
    /\ worker' = [worker EXCEPT ![w] = "deliver"]
    /\ UNCHANGED <<rib, stream, monitorVars, active, recent, fetched, builderVars,
                   ted, history>>

Deliver(w) ==
    /\ worker[w] = "deliver"
    /\ Take(fetched[w])
    /\ worker' = [worker EXCEPT ![w] = "leave"]
    /\ UNCHANGED <<rib, stream, monitorVars, active, recent, fetched, ted, history>>

(* The context is cancelled while it waits, fetches or delivers.           *)
Cancelled(w) ==
    /\ monitor = "ended"
    /\ worker[w] \in {"wait", "check", "deliver"}
    /\ worker' = [worker EXCEPT ![w] = "leave"]
    /\ heard' = 0
    /\ UNCHANGED <<rib, stream, monitorVars, active, recent, fetched, builderVars,
                   ted, received>>

(* The deferred function.                                                  *)
LeaveActive(w) ==    \* mutant: the flag stays set
    /\ worker[w] = "leave"
    /\ worker' = [worker EXCEPT ![w] = "none"]
    /\ UNCHANGED <<rib, stream, monitorVars, active, recent, fetched, builderVars,
                   ted, history>>
Leave(w) ==
    /\ worker[w] = "leave"
    /\ worker' = [worker EXCEPT ![w] = "none"]
    /\ active' = FALSE
    /\ UNCHANGED <<rib, stream, monitorVars, recent, fetched, builderVars, ted,
                   history>>

WorkerStep(w) ==
    \/ StopWaiting(w) \/ Fetch(w) \/ FetchError(w) \/ StillWanted(w)
    \/ Deliver(w) \/ Cancelled(w) \/ Leave(w)

------------------------------------------------------------------------------
(* The goroutine of NewPCE: a TED is built of the elements, then published *)

SetTED ==
    /\ builder = "build"
    /\ builder' = "receive"
    /\ ted' = building
    /\ UNCHANGED <<rib, stream, monitorVars, debouncer, building, history>>

------------------------------------------------------------------------------

MonitorStep ==
    \/ InitialFetch \/ InitialFetchFails \/ InitialOffer \/ Watch \/ Trigger
    \/ StreamError \/ StreamEOF

Next ==
    \/ TableChanges \/ MonitorStep \/ CoolDown
    \/ \E w \in Workers : WorkerStep(w)
    \/ SetTED

Spec == Init /\ [][Next]_vars

(* Goroutines run, calls return, time passes; nothing is assumed of the    *)
(* table or of when a stream breaks.                                       *)
Fairness ==
    /\ WF_vars(InitialFetch) /\ WF_vars(InitialOffer) /\ WF_vars(Watch)
    /\ WF_vars(Trigger) /\ WF_vars(CoolDown) /\ WF_vars(SetTED)
    /\ \A w \in Workers : WF_vars(WorkerStep(w))

FairSpec == Spec /\ Fairness

------------------------------------------------------------------------------
(* Properties *)

TypeOK ==
    /\ rib \in Nat /\ stream \in 0 .. rib
    /\ received \in Nat /\ heard \in Nat
    /\ monitor \in {"sync", "offer", "watch", "receive", "ended"}
    /\ synced \in Nat /\ building \in Nat /\ ted \in Nat
    /\ active \in BOOLEAN /\ recent \in BOOLEAN
    /\ worker \in [Workers -> {"none", "wait", "fetch", "check", "deliver", "leave"}]
    /\ fetched \in [Workers -> Nat]
    /\ builder \in {"receive", "build"}

(* The active flag admits one debounce goroutine at a time, from the       *)
(* trigger that starts it to its deferred function.                        *)
OneWorker ==
    \A w \in Workers : worker[w] # "none" =>
       /\ active
       /\ \A v \in Workers : worker[v] # "none" => v = w

(* Readers of Server.TED() see table versions that never go back, although *)
(* initialSync, the debounce goroutines and the builder hand versions on   *)
(* one after the other and each may be delayed at any point.               *)
Snapshot == INSTANCE TEDSnapshot
TEDNeverGoesBack == Snapshot!Spec

(* An event that finds no goroutine active, or one that has not read the   *)
(* table yet, is followed by a TED at least as new as the event, unless    *)
(* the fetch that follows it fails or the feed ends: nothing in between    *)
(* loses it, and no delivery waits for ever.                               *)
DebouncedEventsReachTED ==
    \A v \in 1 .. MaxUpdates : heard >= v ~> (ted >= v \/ heard < v)

(* internal/gobgp/interface.go: if no additional triggers occur within the *)
(* cooldown from the trigger, TED is retrieved once - so every event that  *)
(* is received is followed by a TED at least as new as the event.          *)
ReceivedEventsReachTED ==
    \A v \in 1 .. MaxUpdates : received >= v ~> ted >= v
=============================================================================
