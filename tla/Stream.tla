------------------------------- MODULE Stream -------------------------------
(***************************************************************************)
(* The live decision log: a changefeed publishes new rows to a hub, the    *)
(* hub to the buffers of its subscribers, and a handler per connection     *)
(* sends a snapshot and then what its buffer holds to a console page.      *)
(*                                                                         *)
(* A row is its seq; the log is 1..log (module Erasure).  A page that      *)
(* reconnects is the same page with a new connection.  Publish holds the   *)
(* hub's lock, but handlers receive from their channels without it.        *)
(***************************************************************************)
EXTENDS Naturals, Sequences, FiniteSets

CONSTANTS Pages,      \* console pages, each with at most one connection
          MaxSubs,    \* the hub's cap on subscribers
          Buffer,     \* the capacity of a subscriber's channel
          Nobody,     \* no subscriber's turn
          MaxLog,     \* bound on the rows committed
          MaxFaults,  \* bound on feed drops, repeated or unreadable rows, failed
                      \* snapshots
          MaxResets   \* bound on resets of a page's console

ASSUME StreamAssumption == /\ IsFiniteSet(Pages)
                           /\ Nobody \notin Pages
                           /\ MaxSubs \in Nat \ {0}
                           /\ Buffer \in Nat \ {0}
                           /\ {MaxLog, MaxFaults, MaxResets} \subseteq Nat

VARIABLES log,          \* the rows committed so far
          feed,         \* a changefeed is running
          owed,         \* rows it has yet to emit
          subscribers,  \* the hub's map
          chan,         \* the subscribers' channels
          pub,          \* the Publish under way, which holds the hub's lock
          pc,           \* each connection's handler
          rows,         \* the rows each page shows
          status,       \* what it says of them
          gap,          \* observer: rows no changefeed emits, or only unreadably
          dropped,      \* observer: rows dropped from this connection's channel
          blind,        \* observer: rows a failed snapshot or a reset hid
          faults, resets

hubVars == <<subscribers, chan, pub>>
feedVars == <<log, feed, owed, gap>>
pageVars == <<rows, status, dropped, blind>>
vars == <<feedVars, hubVars, pageVars, pc, faults, resets>>

Row == 1..MaxLog
NoEvent == 0
Unlocked == [event |-> NoEvent, pending |-> {}, turn |-> Nobody, full |-> FALSE]

TypeOK ==
    /\ log \in 0..MaxLog
    /\ feed \in BOOLEAN
    /\ owed \subseteq Row
    /\ subscribers \subseteq Pages
    /\ chan \in [Pages -> Seq(Row)]
    /\ \A v \in Pages : Len(chan[v]) <= Buffer
    /\ pub \in [event : Row \cup {NoEvent}, pending : SUBSET Pages,
                turn : Pages \cup {Nobody}, full : BOOLEAN]
    /\ pc \in [Pages -> {"off", "open", "snapshot", "streaming", "leaving"}]
    /\ rows \in [Pages -> SUBSET Row]
    /\ status \in [Pages -> {"connecting", "live", "error"}]
    /\ gap \subseteq Row
    /\ dropped \in [Pages -> SUBSET Row]
    /\ blind \in [Pages -> SUBSET Row]
    /\ faults \in 0..MaxFaults
    /\ resets \in 0..MaxResets

(* The process has just booted: it listens, and its consumer is about to    *)
(* start the first changefeed.                                              *)
Init ==
    /\ log = 0
    /\ feed = FALSE
    /\ owed = {}
    /\ subscribers = {}
    /\ chan = [v \in Pages |-> <<>>]
    /\ pub = Unlocked
    /\ pc = [v \in Pages |-> "off"]
    /\ rows = [v \in Pages |-> {}]
    /\ status = [v \in Pages |-> "connecting"]
    /\ gap = {}
    /\ dropped = [v \in Pages |-> {}]
    /\ blind = [v \in Pages |-> {}]
    /\ faults = 0
    /\ resets = 0

Fault == /\ faults < MaxFaults
         /\ faults' = faults + 1

Goto(v, l) == pc' = [pc EXCEPT ![v] = l]

LockFree == pub = Unlocked

Queued(v) == {chan[v][i] : i \in 1..Len(chan[v])}

-----------------------------------------------------------------------------
(* The log and its changefeed. *)

(* An erasure commits.  Without an initial scan, a changefeed emits the     *)
(* rows committed while it runs and no others.                              *)
Commit ==
    /\ log < MaxLog
    /\ log' = log + 1
    /\ IF feed
       THEN owed' = owed \cup {log'} /\ UNCHANGED gap
       ELSE gap' = gap \cup {log'} /\ UNCHANGED owed
    /\ UNCHANGED <<feed, hubVars, pageVars, pc, faults, resets>>

FeedStarts ==
    /\ ~feed
    /\ feed' = TRUE
    /\ UNCHANGED <<log, owed, gap, hubVars, pageVars, pc, faults, resets>>

(* The feed ends; the next one starts after a backoff, from its own now.    *)
FeedDrops ==
    /\ feed
    /\ LockFree
    /\ Fault
    /\ feed' = FALSE
    /\ gap' = gap \cup owed
    /\ owed' = {}
    /\ UNCHANGED <<log, hubVars, pageVars, pc, resets>>

(* A row is emitted (rows of different keys in any order, at least once)    *)
(* and Publish takes the lock.                                              *)
Emit(n) ==
    /\ LockFree
    /\ n \in owed
    /\ \/ owed' = owed \ {n} /\ UNCHANGED faults
       \/ Fault /\ UNCHANGED owed
    /\ pub' = [Unlocked EXCEPT !.event = n, !.pending = subscribers]
    /\ UNCHANGED <<log, feed, gap, subscribers, chan, pageVars, pc, resets>>

(* A row that does not parse is logged and passed over.                     *)
Skip(n) ==
    /\ LockFree
    /\ n \in owed
    /\ Fault
    /\ owed' = owed \ {n}
    /\ gap' = gap \cup {n}
    /\ UNCHANGED <<log, feed, hubVars, pageVars, pc, resets>>

-----------------------------------------------------------------------------
(* Hub.Publish: for every subscriber, in any order: send; if the channel is *)
(* full receive one event from it, without waiting, and try again.          *)

Turn(v) == v \in pub.pending /\ pub.turn \in {Nobody, v} /\ ~pub.full

(* Mutants: the inner break leaves the outer loop; the queue is unbounded. *)
SendToOne(v) ==
    /\ Turn(v)
    /\ Len(chan[v]) < Buffer
    /\ chan' = [chan EXCEPT ![v] = Append(@, pub.event)]
    /\ pub' = [pub EXCEPT !.pending = {}, !.turn = Nobody]
    /\ UNCHANGED <<subscribers, feedVars, pageVars, pc, faults, resets>>

SendUnbounded(v) ==
    /\ Turn(v)
    /\ chan' = [chan EXCEPT ![v] = Append(@, pub.event)]
    /\ pub' = [pub EXCEPT !.pending = @ \ {v}, !.turn = Nobody]
    /\ UNCHANGED <<subscribers, feedVars, pageVars, pc, faults, resets>>

Send(v) ==
    /\ Turn(v)
    /\ Len(chan[v]) < Buffer
    /\ chan' = [chan EXCEPT ![v] = Append(@, pub.event)]
    /\ pub' = [pub EXCEPT !.pending = @ \ {v}, !.turn = Nobody]
    /\ UNCHANGED <<subscribers, feedVars, pageVars, pc, faults, resets>>

FindFull(v) ==
    /\ Turn(v)
    /\ Len(chan[v]) = Buffer
    /\ pub' = [pub EXCEPT !.turn = v, !.full = TRUE]
    /\ UNCHANGED <<subscribers, chan, feedVars, pageVars, pc, faults, resets>>

(* Mutant: nothing is received, the send is only tried again. *)
DropNothing(v) ==
    /\ pub.full
    /\ pub.turn = v
    /\ pub' = [pub EXCEPT !.full = FALSE]
    /\ UNCHANGED <<subscribers, chan, feedVars, pageVars, pc, faults, resets>>

(* The reader may have emptied the channel in between. *)
DropOldest(v) ==
    /\ pub.full
    /\ pub.turn = v
    /\ pub' = [pub EXCEPT !.full = FALSE]
    /\ \/ /\ chan[v] # <<>>
          /\ chan' = [chan EXCEPT ![v] = Tail(@)]
          /\ dropped' = [dropped EXCEPT ![v] = @ \cup {Head(chan[v])}]
       \/ /\ chan[v] = <<>>
          /\ UNCHANGED <<chan, dropped>>
    /\ UNCHANGED <<subscribers, rows, status, blind, feedVars, pc, faults, resets>>

Unlock ==
    /\ pub.event # NoEvent
    /\ pub.pending = {}
    /\ pub' = Unlocked
    /\ UNCHANGED <<subscribers, chan, feedVars, pageVars, pc, faults, resets>>

-----------------------------------------------------------------------------
(* handleErasureStream, and the page at its other end. *)

Open(v) ==
    /\ pc[v] = "off"
    /\ Goto(v, "open")
    /\ UNCHANGED <<hubVars, feedVars, pageVars, faults, resets>>

(* The page replaces what it shows by the snapshot. *)
ShowSnapshot(v, st) ==
    /\ \/ /\ rows' = [rows EXCEPT ![v] = 1..log]
          /\ blind' = [blind EXCEPT ![v] = {}]
          /\ UNCHANGED faults
       \/ /\ Fault    \* the read fails: an empty snapshot
          /\ rows' = [rows EXCEPT ![v] = {}]
          /\ blind' = [blind EXCEPT ![v] = 1..log]
    /\ status' = [status EXCEPT ![v] = st]

(* Mutant: one subscriber too many. *)
SubscribePastCap(v) ==
    /\ pc[v] = "open"
    /\ LockFree
    /\ Cardinality(subscribers) <= MaxSubs
    /\ subscribers' = subscribers \cup {v}
    /\ chan' = [chan EXCEPT ![v] = <<>>]
    /\ dropped' = [dropped EXCEPT ![v] = {}]
    /\ Goto(v, "snapshot")
    /\ UNCHANGED <<pub, rows, status, blind, feedVars, faults, resets>>

(* Hub.Subscribe, before the snapshot is read. *)
Subscribe(v) ==
    /\ pc[v] = "open"
    /\ LockFree
    /\ Cardinality(subscribers) < MaxSubs
    /\ subscribers' = subscribers \cup {v}
    /\ chan' = [chan EXCEPT ![v] = <<>>]
    /\ dropped' = [dropped EXCEPT ![v] = {}]
    /\ Goto(v, "snapshot")
    /\ UNCHANGED <<pub, rows, status, blind, feedVars, faults, resets>>

(* The cap is reached: a snapshot, an error event, and the end. *)
Refuse(v) ==
    /\ pc[v] = "open"
    /\ LockFree
    /\ Cardinality(subscribers) >= MaxSubs
    /\ ShowSnapshot(v, "error")
    /\ Goto(v, "off")
    /\ UNCHANGED <<hubVars, dropped, feedVars, resets>>

Snapshot(v) ==
    /\ pc[v] = "snapshot"
    /\ ShowSnapshot(v, "live")
    /\ Goto(v, "streaming")
    /\ UNCHANGED <<hubVars, dropped, feedVars, resets>>

(* Mutant: a row below the newest is taken for a duplicate. *)
MergeRowByNewest(rs, n) == IF \E m \in rs : m >= n THEN rs ELSE rs \cup {n}

(* The page dedupes by seq and sorts. *)
MergeRow(rs, n) == rs \cup {n}

Forward(v) ==
    /\ pc[v] = "streaming"
    /\ chan[v] # <<>>
    /\ chan' = [chan EXCEPT ![v] = Tail(@)]
    /\ rows' = [rows EXCEPT ![v] = MergeRow(@, Head(chan[v]))]
    /\ status' = [status EXCEPT ![v] = "live"]
    /\ UNCHANGED <<subscribers, pub, dropped, blind, feedVars, pc, faults, resets>>

(* Mutant: only a handler that got as far as streaming unsubscribes. *)
HangupForgets(v) ==
    /\ pc[v] \in {"open", "snapshot", "streaming"}
    /\ Goto(v, IF pc[v] = "streaming" THEN "leaving" ELSE "off")
    /\ status' = [status EXCEPT ![v] = "error"]
    /\ UNCHANGED <<hubVars, rows, dropped, blind, feedVars, faults, resets>>

(* The connection ends, at any point; the handler notices and returns, and  *)
(* does not receive any more.                                               *)
Hangup(v) ==
    /\ pc[v] \in {"open", "snapshot", "streaming"}
    /\ Goto(v, IF pc[v] = "open" THEN "off" ELSE "leaving")
    /\ status' = [status EXCEPT ![v] = "error"]
    /\ UNCHANGED <<hubVars, rows, dropped, blind, feedVars, faults, resets>>

(* The deferred unsubscribe. *)
Unsubscribe(v) ==
    /\ pc[v] = "leaving"
    /\ LockFree
    /\ subscribers' = subscribers \ {v}
    /\ chan' = [chan EXCEPT ![v] = <<>>]
    /\ Goto(v, "off")
    /\ UNCHANGED <<pub, pageVars, feedVars, faults, resets>>

(* The console is reset; its subscription is not. *)
Reset(v) ==
    /\ resets < MaxResets
    /\ resets' = resets + 1
    /\ rows' = [rows EXCEPT ![v] = {}]
    /\ blind' = [blind EXCEPT ![v] = @ \cup rows[v]]
    /\ status' = [status EXCEPT ![v] = "connecting"]
    /\ UNCHANGED <<hubVars, dropped, feedVars, pc, faults>>

-----------------------------------------------------------------------------
Publishing == Unlock \/ \E v \in Pages : Send(v) \/ FindFull(v) \/ DropOldest(v)

PageStep(v) == \/ Open(v) \/ Subscribe(v) \/ Refuse(v) \/ Snapshot(v) \/ Forward(v)
               \/ Hangup(v) \/ Unsubscribe(v) \/ Reset(v)

Next == \/ Commit \/ FeedStarts \/ FeedDrops
        \/ \E n \in owed : Emit(n) \/ Skip(n)
        \/ Publishing
        \/ \E v \in Pages : PageStep(v)

Spec == Init /\ [][Next]_vars

(* The consumer's goroutine and the handlers are scheduled, and a client    *)
(* that stays reads what its handler writes (Forward), which PublishEnds    *)
(* does not need.  Nothing is assumed of how often the lock is won.         *)
FairSpec == /\ Spec
            /\ WF_vars(Publishing)
            /\ \A n \in Row : WF_vars(Emit(n) /\ owed' # owed)
            /\ \A v \in Pages : WF_vars(Forward(v))

-----------------------------------------------------------------------------
(* Properties. *)

(* The rows that the Publish under way has yet to give to a page. *)
InHand(v) == IF v \in pub.pending THEN {pub.event} ELSE {}

(* A page with a live connection shows every committed row or it is on its  *)
(* way, except for what the code gives up knowingly: rows of a gap between  *)
(* two changefeeds, rows dropped from a full channel, and rows a failed     *)
(* snapshot or a reset hid.  In particular no row falls between the         *)
(* snapshot and the subscription, in whatever order rows are emitted ("This *)
(* closes the subscribe-after-snapshot miss window", server.go).            *)
NothingElseMissed ==
    \A v \in Pages : pc[v] = "streaming" =>
       1..log \subseteq rows[v] \cup Queued(v) \cup InHand(v) \cup owed
                        \cup gap \cup dropped[v] \cup blind[v]

(* A slot of the hub is held by exactly the handlers that have one to give  *)
(* back, and the cap holds: no disconnection, at whatever point, leaks one, *)
(* or closes a channel that the Publish under way is to send to.            *)
SlotsAreHeld ==
    /\ subscribers = {v \in Pages : pc[v] \in {"snapshot", "streaming", "leaving"}}
    /\ Cardinality(subscribers) <= MaxSubs
    /\ pub.pending \subseteq subscribers

(* A subscriber that reads nothing blocks nobody ("one stalled console      *)
(* never stalls the changefeed or the others", hub.go): every Publish ends, *)
(* whatever the readers do.                                                 *)
PublishEnds == ~LockFree ~> LockFree

(* A row that a changefeed owes reaches every page that streams, unless the *)
(* feed, the channel or the connection loses it.                            *)
RowsArrive ==
    \A v \in Pages, n \in Row :
       (pc[v] = "streaming" /\ n \in owed) ~>
          (n \in rows[v] \cup dropped[v] \cup blind[v] \cup gap \/ pc[v] # "streaming")

Drained(v) == /\ pc[v] = "streaming"
              /\ status[v] = "live"
              /\ chan[v] = <<>>
              /\ LockFree
              /\ feed
              /\ owed = {}

(* A page that says it is live, with nothing on its way, shows the log: "as *)
(* each erasure or ingest appends a hash-chained row, the row streams to    *)
(* every connected console in real time" (hub.go).                          *)
LiveMeansCurrent == \A v \in Pages : Drained(v) => rows[v] = 1..log

(* The same for the rows that were published: "the snapshot seeds history"  *)
(* (useDemo.ts).                                                            *)
LiveShowsHistory == \A v \in Pages : Drained(v) => 1..log \subseteq rows[v] \cup gap
=============================================================================
