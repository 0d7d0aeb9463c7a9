---------------------------- MODULE StreamProofs ----------------------------
(***************************************************************************)
(* Theorems about Stream, for any number of pages and rows, any capacity   *)
(* of the channels and any cap on subscribers, and their proofs.           *)
(*                                                                         *)
(* The argument.  A page that streams is in the hub's map, so an event     *)
(* that leaves the feed is in hand for it until it is in its channel, and  *)
(* leaves the channel only towards the page or into the bin.  A snapshot   *)
(* covers all that was committed, hence all that was emitted, before it.   *)
(***************************************************************************)
EXTENDS Stream, FiniteSetTheorems, TLAPS

LEMMA FaultType == TypeOK /\ Fault => faults' \in 0..MaxFaults
BY StreamAssumption DEF TypeOK, Fault

(* Receiving from a channel, and sending to one that has room. *)
LEMMA ChannelTypes ==
  ASSUME NEW q \in Seq(Row), Len(q) <= Buffer
  PROVE  /\ q # <<>> => /\ Head(q) \in Row
                        /\ Tail(q) \in Seq(Row)
                        /\ Len(Tail(q)) <= Buffer
         /\ \A n \in Row : Len(q) < Buffer =>
               Append(q, n) \in Seq(Row) /\ Len(Append(q, n)) <= Buffer
BY StreamAssumption

(* A subscriber's turn comes only while an event is in hand. *)
LockSound == pub.event = NoEvent => pub.pending = {}

TypeInv == TypeOK /\ LockSound

LEMMA ChannelUpdate ==
  ASSUME TypeOK, NEW v \in Pages, NEW q \in Seq(Row), Len(q) <= Buffer,
         chan' = [chan EXCEPT ![v] = q]
  PROVE  chan' \in [Pages -> Seq(Row)] /\ \A w \in Pages : Len(chan'[w]) <= Buffer
BY DEF TypeOK

LEMMA InitTypes == Init => TypeInv
<1>. SUFFICES ASSUME Init PROVE TypeInv
  OBVIOUS
<1>1. chan \in [Pages -> Seq(Row)] /\ \A v \in Pages : Len(chan[v]) <= Buffer
  BY StreamAssumption DEF Init
<1>2. pub \in [event : Row \cup {NoEvent}, pending : SUBSET Pages,
               turn : Pages \cup {Nobody}, full : BOOLEAN]
  BY DEF Init, Unlocked
<1>3. log \in 0..MaxLog /\ faults \in 0..MaxFaults /\ resets \in 0..MaxResets
  BY StreamAssumption DEF Init
<1>4. /\ pc \in [Pages -> {"off", "open", "snapshot", "streaming", "leaving"}]
      /\ rows \in [Pages -> SUBSET Row]
      /\ status \in [Pages -> {"connecting", "live", "error"}]
      /\ dropped \in [Pages -> SUBSET Row]
      /\ blind \in [Pages -> SUBSET Row]
  BY DEF Init
<1>5. LockSound
  BY DEF Init, LockSound, Unlocked
<1>. QED
  BY <1>1, <1>2, <1>3, <1>4, <1>5 DEF Init, TypeInv, TypeOK

LEMMA FeedTypes ==
  ASSUME TypeOK, Commit \/ FeedStarts \/ FeedDrops \/ (\E n \in owed : Emit(n) \/ Skip(n))
  PROVE  TypeOK'
<1>1. CASE Commit
  <2>1. log' \in Row /\ log' \in 0..MaxLog
    BY <1>1, StreamAssumption DEF Commit, TypeOK, Row
  <2>2. owed' \subseteq Row /\ gap' \subseteq Row
    <3>1. \/ owed' = owed \cup {log'} /\ gap' = gap
          \/ gap' = gap \cup {log'} /\ owed' = owed
      BY <1>1, Zenon DEF Commit
    <3>2. owed \subseteq Row /\ gap \subseteq Row
      BY DEF TypeOK
    <3>. QED
      BY <2>1, <3>1, <3>2
  <2>. QED
    BY <1>1, <2>1, <2>2 DEF Commit, TypeOK, hubVars, pageVars
<1>2. CASE FeedStarts
  BY <1>2 DEF FeedStarts, TypeOK, hubVars, pageVars
<1>3. CASE FeedDrops
  BY <1>3, FaultType DEF FeedDrops, TypeOK, hubVars, pageVars
<1>4. ASSUME NEW n \in owed, Emit(n) PROVE TypeOK'
  <2>1. pub' \in [event : Row \cup {NoEvent}, pending : SUBSET Pages,
                  turn : Pages \cup {Nobody}, full : BOOLEAN]
    BY <1>4 DEF Emit, TypeOK, Unlocked
  <2>2. owed' \subseteq Row /\ faults' \in 0..MaxFaults
    BY <1>4, FaultType DEF Emit, TypeOK
  <2>. QED
    BY <1>4, <2>1, <2>2 DEF Emit, TypeOK, pageVars
<1>5. ASSUME NEW n \in owed, Skip(n) PROVE TypeOK'
  BY <1>5, FaultType DEF Skip, TypeOK, hubVars, pageVars
<1>. QED
  BY <1>1, <1>2, <1>3, <1>4, <1>5

LEMMA PublishTypes ==
  ASSUME TypeInv, NEW v \in Pages, Send(v) \/ FindFull(v) \/ DropOldest(v) \/ Unlock
  PROVE  TypeOK'
<1>. USE DEF feedVars, pageVars
<1>0. /\ pub \in [event : Row \cup {NoEvent}, pending : SUBSET Pages,
                  turn : Pages \cup {Nobody}, full : BOOLEAN]
      /\ chan[v] \in Seq(Row) /\ Len(chan[v]) <= Buffer /\ TypeOK
  BY DEF TypeInv, TypeOK
<1>1. CASE Send(v)
  <2>1. pub.event \in Row
    BY <1>0, <1>1 DEF Send, Turn, TypeInv, LockSound
  <2>2. Append(chan[v], pub.event) \in Seq(Row) /\ Len(Append(chan[v], pub.event)) <= Buffer
    BY <1>0, <1>1, <2>1, ChannelTypes DEF Send
  <2>3. chan' \in [Pages -> Seq(Row)] /\ \A w \in Pages : Len(chan'[w]) <= Buffer
    BY <1>0, <1>1, <2>2 DEF Send, TypeOK
  <2>4. pub' \in [event : Row \cup {NoEvent}, pending : SUBSET Pages,
                  turn : Pages \cup {Nobody}, full : BOOLEAN]
    BY <1>0, <1>1 DEF Send
  <2>. QED
    BY <1>0, <1>1, <2>3, <2>4 DEF Send, TypeOK
<1>2. CASE FindFull(v)
  BY <1>0, <1>2 DEF FindFull, TypeOK
<1>3. CASE DropOldest(v)
  <2>1. pub' \in [event : Row \cup {NoEvent}, pending : SUBSET Pages,
                  turn : Pages \cup {Nobody}, full : BOOLEAN]
    BY <1>0, <1>3 DEF DropOldest
  <2>2. CASE chan[v] = <<>>
    BY <1>0, <1>3, <2>1, <2>2 DEF DropOldest, TypeOK
  <2>3. CASE chan[v] # <<>>
    <3>1. /\ Head(chan[v]) \in Row /\ Tail(chan[v]) \in Seq(Row)
          /\ Len(Tail(chan[v])) <= Buffer
      BY <1>0, <2>3, ChannelTypes
    <3>2. /\ chan' = [chan EXCEPT ![v] = Tail(chan[v])]
          /\ dropped' = [dropped EXCEPT ![v] = dropped[v] \cup {Head(chan[v])}]
      BY <1>3, <2>3 DEF DropOldest
    <3>3. chan' \in [Pages -> Seq(Row)] /\ \A w \in Pages : Len(chan'[w]) <= Buffer
      BY <1>0, <3>1, <3>2, ChannelUpdate
    <3>4. dropped' \in [Pages -> SUBSET Row]
      BY <1>0, <3>1, <3>2 DEF TypeOK
    <3>. QED
      BY <1>0, <1>3, <2>1, <3>3, <3>4 DEF DropOldest, TypeOK
  <2>. QED
    BY <2>2, <2>3
<1>4. CASE Unlock
  <2>1. pub' \in [event : Row \cup {NoEvent}, pending : SUBSET Pages,
                  turn : Pages \cup {Nobody}, full : BOOLEAN]
    BY <1>4 DEF Unlock, Unlocked
  <2>. QED
    BY <1>0, <1>4, <2>1 DEF Unlock, TypeOK
<1>. QED
  BY <1>1, <1>2, <1>3, <1>4

LEMMA PageTypes ==
  ASSUME TypeOK, NEW v \in Pages, PageStep(v)
  PROVE  TypeOK'
<1>. USE DEF feedVars, pageVars, hubVars, Goto
<1>0. chan[v] \in Seq(Row) /\ Len(chan[v]) <= Buffer /\ 1..log \subseteq Row
  BY StreamAssumption DEF TypeOK, Row
<1>1. CASE Open(v) \/ Hangup(v)
  BY <1>1 DEF Open, Hangup, TypeOK
<1>2. CASE Subscribe(v) \/ Unsubscribe(v)
  <2>1. chan' \in [Pages -> Seq(Row)] /\ \A w \in Pages : Len(chan'[w]) <= Buffer
    <3>1. chan' = [chan EXCEPT ![v] = <<>>]
      BY <1>2 DEF Subscribe, Unsubscribe
    <3>2. <<>> \in Seq(Row) /\ Len(<<>>) <= Buffer
      BY StreamAssumption
    <3>. QED
      BY <3>1, <3>2, ChannelUpdate
  <2>2. dropped' \in [Pages -> SUBSET Row]
    BY <1>2 DEF Subscribe, Unsubscribe, TypeOK
  <2>3. /\ subscribers' \subseteq Pages
        /\ pc' \in [Pages -> {"off", "open", "snapshot", "streaming", "leaving"}]
    BY <1>2 DEF Subscribe, Unsubscribe, TypeOK
  <2>4. UNCHANGED <<pub, rows, status, blind, feedVars, faults, resets>>
    BY <1>2 DEF Subscribe, Unsubscribe
  <2>. QED
    BY <2>1, <2>2, <2>3, <2>4 DEF TypeOK
<1>3. ASSUME NEW st \in {"live", "error"}, ShowSnapshot(v, st)
      PROVE  /\ rows' \in [Pages -> SUBSET Row] /\ blind' \in [Pages -> SUBSET Row]
             /\ status' \in [Pages -> {"connecting", "live", "error"}]
             /\ faults' \in 0..MaxFaults
  <2>1. status' \in [Pages -> {"connecting", "live", "error"}]
    BY <1>3 DEF ShowSnapshot, TypeOK
  <2>2. /\ \/ /\ rows' = [rows EXCEPT ![v] = 1..log]
              /\ blind' = [blind EXCEPT ![v] = {}]
           \/ /\ rows' = [rows EXCEPT ![v] = {}]
              /\ blind' = [blind EXCEPT ![v] = 1..log]
        /\ faults' = faults \/ Fault
    BY <1>3 DEF ShowSnapshot
  <2>3. rows' \in [Pages -> SUBSET Row] /\ blind' \in [Pages -> SUBSET Row]
    <3>1. /\ rows \in [Pages -> SUBSET Row] /\ blind \in [Pages -> SUBSET Row]
          /\ 1..log \in SUBSET Row /\ {} \in SUBSET Row
      BY <1>0 DEF TypeOK
    <3>. DEFINE all == 1..log
    <3>. HIDE DEF all
    <3>2. CASE rows' = [rows EXCEPT ![v] = all] /\ blind' = [blind EXCEPT ![v] = {}]
      BY <3>1, <3>2 DEF all
    <3>3. CASE rows' = [rows EXCEPT ![v] = {}] /\ blind' = [blind EXCEPT ![v] = all]
      BY <3>1, <3>3 DEF all
    <3>. QED
      BY <2>2, <3>2, <3>3 DEF all
  <2>4. faults' \in 0..MaxFaults
    BY <2>2, FaultType DEF TypeOK
  <2>. QED
    BY <2>1, <2>3, <2>4
<1>4. CASE Refuse(v)
  BY <1>3, <1>4 DEF Refuse, TypeOK
<1>5. CASE Snapshot(v)
  BY <1>3, <1>5 DEF Snapshot, TypeOK
<1>6. CASE Forward(v)
  <2>1. /\ Head(chan[v]) \in Row /\ Tail(chan[v]) \in Seq(Row)
        /\ Len(Tail(chan[v])) <= Buffer
    BY <1>0, <1>6, ChannelTypes DEF Forward
  <2>2. chan' \in [Pages -> Seq(Row)] /\ \A w \in Pages : Len(chan'[w]) <= Buffer
    BY <1>6, <2>1 DEF Forward, TypeOK
  <2>3. rows' \in [Pages -> SUBSET Row]
    BY <1>6, <2>1 DEF Forward, MergeRow, TypeOK
  <2>. QED
    BY <1>6, <2>2, <2>3 DEF Forward, TypeOK
<1>7. CASE Reset(v)
  <2>1. resets' \in 0..MaxResets
    BY <1>7, StreamAssumption DEF Reset, TypeOK
  <2>. QED
    BY <1>7, <2>1 DEF Reset, TypeOK
<1>. QED
  BY <1>1, <1>2, <1>4, <1>5, <1>6, <1>7 DEF PageStep

LEMMA NextLockSound == TypeInv /\ [Next]_vars => LockSound'
<1>. SUFFICES ASSUME TypeInv, [Next]_vars PROVE LockSound'
  OBVIOUS
<1>1. TypeOK /\ LockSound
  BY DEF TypeInv
<1>2. CASE pub' = pub
  BY <1>1, <1>2 DEF LockSound
<1>3. ASSUME NEW n \in owed, Emit(n) PROVE LockSound'
  BY <1>1, <1>3 DEF Emit, TypeOK, Unlocked, LockSound, Row, NoEvent
<1>4. ASSUME NEW v \in Pages, Send(v) \/ FindFull(v) \/ DropOldest(v) PROVE LockSound'
  BY <1>1, <1>4 DEF Send, FindFull, DropOldest, Turn, LockSound, TypeOK
<1>5. CASE Unlock
  BY <1>5 DEF Unlock, Unlocked, LockSound
<1>6. CASE Commit \/ FeedStarts \/ FeedDrops \/ (\E n \in owed : Skip(n)) \/ UNCHANGED vars
  BY <1>2, <1>6 DEF Commit, FeedStarts, FeedDrops, Skip, vars, hubVars
<1>7. ASSUME NEW v \in Pages, PageStep(v) PROVE LockSound'
  BY <1>2, <1>7 DEF PageStep, Open, Subscribe, Refuse, Snapshot, Forward, Hangup,
                    Unsubscribe, Reset, hubVars
<1>. QED
  BY <1>3, <1>4, <1>5, <1>6, <1>7 DEF Next, Publishing

LEMMA NextTypes == TypeInv /\ [Next]_vars => TypeInv'
<1>. SUFFICES ASSUME TypeInv, [Next]_vars PROVE TypeOK'
  BY NextLockSound DEF TypeInv
<1>1. TypeOK
  BY DEF TypeInv
<1>2. CASE UNCHANGED vars
  BY <1>1, <1>2 DEF TypeOK, vars, feedVars, hubVars, pageVars
<1>3. CASE Unlock
  BY <1>1, <1>3 DEF Unlock, Unlocked, TypeOK, feedVars, pageVars
<1>. QED
  BY <1>1, <1>2, <1>3, FeedTypes, PublishTypes, PageTypes DEF Next, Publishing

(* Every channel stays within its capacity and every variable in its type.  *)
THEOREM StreamTypeCorrect == Spec => []TypeOK
<1>1. TypeInv => TypeOK
  BY DEF TypeInv
<1>. QED
  BY <1>1, InitTypes, NextTypes, PTL DEF Spec

-----------------------------------------------------------------------------
(* The hub's slots. *)

(* Steps that are of no handler that comes or goes. *)
LEMMA SlotsKept ==
  ASSUME SlotsAreHeld, UNCHANGED subscribers, pub'.pending \subseteq subscribers,
         \A v \in Pages : pc'[v] = pc[v]
  PROVE  SlotsAreHeld'
BY DEF SlotsAreHeld

LEMMA PageSlots ==
  ASSUME TypeOK, SlotsAreHeld, NEW v \in Pages, PageStep(v)
  PROVE  SlotsAreHeld'
<1>0. /\ pc \in [Pages -> {"off", "open", "snapshot", "streaming", "leaving"}]
      /\ IsFiniteSet(subscribers) /\ Cardinality(subscribers) \in Nat
  <2>1. subscribers \subseteq Pages
    BY DEF TypeOK
  <2>. QED
    BY <2>1, StreamAssumption, FS_Subset, FS_CardinalityType DEF TypeOK
<1>1. CASE Open(v) \/ Refuse(v) \/ Snapshot(v) \/ Hangup(v)
  <2>1. /\ subscribers' = subscribers /\ pub' = pub
        /\ \E l \in {"off", "open", "snapshot", "streaming", "leaving"} :
              pc' = [pc EXCEPT ![v] = l]
        /\ pc[v] \in {"snapshot", "streaming", "leaving"} <=>
              pc'[v] \in {"snapshot", "streaming", "leaving"}
    BY <1>0, <1>1 DEF Open, Refuse, Snapshot, Hangup, Goto, hubVars
  <2>2. \A w \in Pages \ {v} : pc'[w] = pc[w]
    BY <1>0, <2>1
  <2>3. subscribers' = {w \in Pages : pc'[w] \in {"snapshot", "streaming", "leaving"}}
    BY <2>1, <2>2 DEF SlotsAreHeld
  <2>. QED
    BY <2>1, <2>3 DEF SlotsAreHeld
<1>2. CASE Forward(v) \/ Reset(v)
  BY <1>2, SlotsKept DEF Forward, Reset, hubVars, SlotsAreHeld
<1>3. CASE Subscribe(v)
  <2>1. subscribers' = {w \in Pages : pc'[w] \in {"snapshot", "streaming", "leaving"}}
    BY <1>0, <1>3 DEF Subscribe, Goto, SlotsAreHeld
  <2>2. subscribers' = subscribers \cup {v} /\ Cardinality(subscribers) < MaxSubs
    BY <1>3 DEF Subscribe
  <2>3. v \notin subscribers
    BY <1>3 DEF Subscribe, SlotsAreHeld
  <2>4. Cardinality(subscribers \cup {v}) = Cardinality(subscribers) + 1
    BY <1>0, <2>3, FS_AddElement
  <2>5. Cardinality(subscribers') <= MaxSubs
    BY <1>0, <2>2, <2>4, StreamAssumption
  <2>6. pub'.pending \subseteq subscribers'
    BY <1>3, <2>2 DEF Subscribe, SlotsAreHeld
  <2>. QED
    BY <2>1, <2>5, <2>6 DEF SlotsAreHeld
<1>4. CASE Unsubscribe(v)
  <2>1. subscribers' = {w \in Pages : pc'[w] \in {"snapshot", "streaming", "leaving"}}
    BY <1>0, <1>4 DEF Unsubscribe, Goto, SlotsAreHeld
  <2>2. /\ subscribers' \subseteq subscribers
        /\ Cardinality(subscribers') \in Nat
        /\ Cardinality(subscribers') <= Cardinality(subscribers)
    BY <1>0, <1>4, FS_Subset, FS_CardinalityType DEF Unsubscribe
  (* It closes its channel while no Publish is under way. *)
  <2>3. pub'.pending = {}
    BY <1>4 DEF Unsubscribe, LockFree, Unlocked
  <2>. QED
    BY <1>0, <2>1, <2>2, <2>3, StreamAssumption DEF SlotsAreHeld
<1>. QED
  BY <1>1, <1>2, <1>3, <1>4 DEF PageStep

LEMMA NextSlots == TypeOK /\ SlotsAreHeld /\ [Next]_vars => SlotsAreHeld'
<1>. SUFFICES ASSUME TypeOK, SlotsAreHeld, [Next]_vars PROVE SlotsAreHeld'
  OBVIOUS
<1>1. ASSUME UNCHANGED <<subscribers, pc>>, pub'.pending \subseteq subscribers
      PROVE  SlotsAreHeld'
  BY <1>1, SlotsKept
<1>2. pub.pending \subseteq subscribers
  BY DEF SlotsAreHeld
<1>3. CASE Commit \/ FeedStarts \/ FeedDrops \/ (\E n \in owed : Skip(n)) \/ UNCHANGED vars
  BY <1>1, <1>2, <1>3 DEF Commit, FeedStarts, FeedDrops, Skip, vars, hubVars
<1>4. CASE Unlock
  BY <1>1, <1>4 DEF Unlock, Unlocked
<1>5. ASSUME NEW v \in Pages, Send(v) \/ FindFull(v) \/ DropOldest(v)
      PROVE  SlotsAreHeld'
  <2>1. UNCHANGED <<subscribers, pc>>
    BY <1>5 DEF Send, FindFull, DropOldest
  <2>2. pub \in [event : Row \cup {NoEvent}, pending : SUBSET Pages,
                turn : Pages \cup {Nobody}, full : BOOLEAN]
    BY DEF TypeOK
  <2>3. pub'.pending \subseteq pub.pending
    BY <1>5, <2>2 DEF Send, FindFull, DropOldest
  <2>. QED
    BY <1>1, <1>2, <2>1, <2>3
<1>6. ASSUME NEW n \in owed, Emit(n) PROVE SlotsAreHeld'
  BY <1>1, <1>6 DEF Emit, Unlocked
<1>. QED
  BY <1>3, <1>4, <1>5, <1>6, PageSlots DEF Next, Publishing

LEMMA InitSlots == Init => SlotsAreHeld
<1>. SUFFICES ASSUME Init PROVE SlotsAreHeld
  OBVIOUS
<1>1. subscribers = {} /\ pub.pending = {} /\ \A v \in Pages : pc[v] = "off"
  BY DEF Init, Unlocked
<1>2. Cardinality(subscribers) = 0
  BY <1>1, FS_EmptySet
<1>. QED
  BY <1>1, <1>2, StreamAssumption DEF SlotsAreHeld

(* No disconnection, before or after the snapshot, and whether or not a     *)
(* Publish holds the lock, leaks a slot of the hub or closes a channel that *)
(* the Publish is to send to; and the cap holds.                            *)
THEOREM SlotsCorrect == Spec => []SlotsAreHeld
<1>1. TypeInv /\ SlotsAreHeld /\ [Next]_vars => TypeInv' /\ SlotsAreHeld'
  BY NextTypes, NextSlots DEF TypeInv
<1>. QED
  BY <1>1, InitTypes, InitSlots, PTL DEF Spec

-----------------------------------------------------------------------------
(* The rows. *)

(* Where a committed row may be, seen from a page. *)
Accounted(v) == rows[v] \cup Queued(v) \cup InHand(v) \cup owed
                        \cup gap \cup dropped[v] \cup blind[v]

LEMMA ReceiveQueued ==
  ASSUME NEW q \in Seq(Row), q # <<>>, NEW n,
         n \in {q[i] : i \in 1..Len(q)}
  PROVE  n = Head(q) \/ n \in {Tail(q)[i] : i \in 1..Len(Tail(q))}
<1>1. PICK i \in 1..Len(q) : n = q[i]
  OBVIOUS
<1>2. CASE i = 1
  BY <1>1, <1>2
<1>3. CASE i # 1
  <2>1. /\ Len(q) \in Nat /\ i - 1 \in 1..(Len(q) - 1)
        /\ Len(Tail(q)) = Len(q) - 1 /\ Tail(q)[i - 1] = q[i]
    BY <1>3
  <2>. QED
    BY <1>1, <2>1
<1>. QED
  BY <1>2, <1>3

LEMMA SendQueued ==
  ASSUME NEW q \in Seq(Row), NEW m \in Row
  PROVE  /\ m \in {Append(q, m)[i] : i \in 1..Len(Append(q, m))}
         /\ \A n : n \in {q[i] : i \in 1..Len(q)} =>
                  n \in {Append(q, m)[i] : i \in 1..Len(Append(q, m))}
<1>1. /\ Len(q) \in Nat /\ Len(Append(q, m)) = Len(q) + 1
      /\ Append(q, m)[Len(q) + 1] = m
      /\ \A i \in 1..Len(q) : Append(q, m)[i] = q[i]
  OBVIOUS
<1>2. m \in {Append(q, m)[i] : i \in 1..Len(Append(q, m))}
  BY <1>1
<1>3. ASSUME NEW n, n \in {q[i] : i \in 1..Len(q)}
      PROVE  n \in {Append(q, m)[i] : i \in 1..Len(Append(q, m))}
  <2>1. PICK i \in 1..Len(q) : n = q[i]
    BY <1>3
  <2>2. i \in 1..Len(Append(q, m)) /\ Append(q, m)[i] = n
    BY <1>1, <2>1
  <2>. QED
    BY <2>2
<1>. QED
  BY <1>2, <1>3

(* A step that takes no row away from a page that goes on streaming, and    *)
(* commits none.                                                            *)
LEMMA RowsKept ==
  ASSUME TypeOK, NothingElseMissed, UNCHANGED log,
         \A v \in Pages : pc'[v] = "streaming" =>
            pc[v] = "streaming" /\ Accounted(v) \subseteq Accounted(v)'
  PROVE  NothingElseMissed'
BY DEF NothingElseMissed, Accounted

LEMMA FeedRows ==
  ASSUME TypeInv, SlotsAreHeld, NothingElseMissed,
         Commit \/ FeedStarts \/ FeedDrops \/ (\E n \in owed : Emit(n) \/ Skip(n))
  PROVE  NothingElseMissed'
<1>0. TypeOK
  BY DEF TypeInv
<1>1. CASE Commit
  <2>1. 1..log' \subseteq 1..log \cup {log'} /\ log' \in owed' \cup gap'
    BY <1>0, <1>1, StreamAssumption DEF Commit, TypeOK
  <2>2. owed \subseteq owed' /\ gap \subseteq gap'
    BY <1>1 DEF Commit
  <2>3. UNCHANGED <<rows, chan, pub, dropped, blind, pc>>
    BY <1>1 DEF Commit, hubVars, pageVars
  <2>4. ASSUME NEW v \in Pages
        PROVE  Queued(v)' = Queued(v) /\ InHand(v)' = InHand(v)
    BY <2>3 DEF Queued, InHand
  <2>. SUFFICES ASSUME NEW v \in Pages, pc'[v] = "streaming"
                PROVE  Accounted(v) \cup {log'} \subseteq Accounted(v)'
    <3>1. ASSUME NEW v \in Pages, pc'[v] = "streaming"
          PROVE  1..log' \subseteq Accounted(v) \cup {log'}
      <4>1. pc[v] = "streaming"
        BY <2>3, <3>1
      <4>2. 1..log \subseteq Accounted(v)
        BY <4>1 DEF NothingElseMissed, Accounted
      <4>. QED
        BY <2>1, <4>2
    <3>. QED
      BY <3>1 DEF NothingElseMissed, Accounted
  <2>. QED
    BY <2>1, <2>2, <2>3, <2>4 DEF Accounted
<1>2. CASE FeedStarts
  BY <1>0, <1>2, RowsKept DEF FeedStarts, hubVars, pageVars, Accounted, Queued, InHand
<1>3. CASE FeedDrops
  <2>1. \A v \in Pages : Queued(v)' = Queued(v) /\ InHand(v)' = InHand(v)
    BY <1>3 DEF FeedDrops, hubVars, Queued, InHand
  <2>2. \A v \in Pages : Accounted(v) \subseteq Accounted(v)'
    BY <1>3, <2>1 DEF FeedDrops, pageVars, Accounted
  <2>. QED
    BY <1>0, <1>3, <2>2, RowsKept DEF FeedDrops
<1>4. ASSUME NEW n \in owed, Emit(n) PROVE NothingElseMissed'
  <2>1. /\ \A v \in Pages : InHand(v) = {}
        /\ pub'.event = n /\ pub'.pending = subscribers
        /\ owed \subseteq owed' \cup {n}
    BY <1>4 DEF Emit, LockFree, Unlocked, InHand
  <2>2. \A v \in Pages : Queued(v)' = Queued(v)
    BY <1>4 DEF Emit, Queued
  <2>3. ASSUME NEW v \in Pages, pc[v] = "streaming"
        PROVE  Accounted(v) \subseteq Accounted(v)'
    <3>1. n \in InHand(v)'
      BY <2>1, <2>3 DEF SlotsAreHeld, InHand
    <3>2. UNCHANGED <<rows, gap, dropped, blind>>
      BY <1>4 DEF Emit, pageVars
    <3>. QED
      BY <2>1, <2>2, <3>1, <3>2, Zenon DEF Accounted
  <2>4. UNCHANGED <<log, pc>>
    BY <1>4 DEF Emit
  <2>. QED
    BY <1>0, <2>3, <2>4, RowsKept
<1>5. ASSUME NEW n \in owed, Skip(n) PROVE NothingElseMissed'
  <2>1. \A v \in Pages : Queued(v)' = Queued(v) /\ InHand(v)' = InHand(v)
    BY <1>5 DEF Skip, hubVars, Queued, InHand
  <2>2. \A v \in Pages : Accounted(v) \subseteq Accounted(v)'
    BY <1>5, <2>1 DEF Skip, pageVars, Accounted
  <2>. QED
    BY <1>0, <1>5, <2>2, RowsKept DEF Skip
<1>. QED
  BY <1>1, <1>2, <1>3, <1>4, <1>5

LEMMA PublishRows ==
  ASSUME TypeInv, NothingElseMissed,
         NEW v \in Pages, Send(v) \/ FindFull(v) \/ DropOldest(v) \/ Unlock
  PROVE  NothingElseMissed'
<1>0. TypeOK /\ chan[v] \in Seq(Row)
  BY DEF TypeInv, TypeOK
<1>. USE DEF feedVars, pageVars
<1>1. UNCHANGED <<log, pc>>
  BY DEF Send, FindFull, DropOldest, Unlock
<1>. SUFFICES ASSUME NEW w \in Pages PROVE Accounted(w) \subseteq Accounted(w)'
  BY <1>0, <1>1, RowsKept
<1>2. CASE Send(v)
  <2>1. pub.event \in Row
    BY <1>0, <1>2 DEF Send, Turn, TypeInv, LockSound, TypeOK
  <2>2. /\ Queued(w) \subseteq Queued(w)'
        /\ w = v => pub.event \in Queued(w)'
    <3>1. CASE w = v
      <4>1. chan'[v] = Append(chan[v], pub.event)
        BY <1>0, <1>2 DEF Send, TypeOK
      <4>. QED
        BY <1>0, <2>1, <3>1, <4>1, SendQueued DEF Queued
    <3>2. CASE w # v
      BY <1>0, <1>2, <3>2 DEF Send, Queued, TypeOK
    <3>. QED
      BY <3>1, <3>2
  <2>3. InHand(w) \subseteq InHand(w)' \cup (IF w = v THEN {pub.event} ELSE {})
    BY <1>0, <1>2 DEF Send, InHand, TypeOK
  <2>. QED
    BY <1>2, <2>2, <2>3 DEF Send, Accounted
<1>3. CASE FindFull(v)
  BY <1>0, <1>3 DEF FindFull, Accounted, Queued, InHand, TypeOK
<1>4. CASE DropOldest(v)
  <2>1. InHand(w)' = InHand(w)
    BY <1>0, <1>4 DEF DropOldest, InHand, TypeOK
  <2>2. Queued(w) \cup dropped[w] \subseteq Queued(w)' \cup dropped'[w]
    <3>1. CASE chan[v] = <<>> \/ w # v
      BY <1>0, <1>4, <3>1 DEF DropOldest, Queued, TypeOK
    <3>2. CASE chan[v] # <<>> /\ w = v
      <4>1. chan'[v] = Tail(chan[v]) /\ dropped'[v] = dropped[v] \cup {Head(chan[v])}
        BY <1>0, <1>4, <3>2 DEF DropOldest, TypeOK
      <4>. QED
        BY <1>0, <3>2, <4>1, ReceiveQueued DEF Queued
    <3>. QED
      BY <3>1, <3>2
  <2>. QED
    BY <1>4, <2>1, <2>2 DEF DropOldest, Accounted
<1>5. CASE Unlock
  BY <1>5 DEF Unlock, Unlocked, Accounted, Queued, InHand
<1>. QED
  BY <1>2, <1>3, <1>4, <1>5

LEMMA PageRows ==
  ASSUME TypeOK, SlotsAreHeld, NothingElseMissed, NEW v \in Pages, PageStep(v)
  PROVE  NothingElseMissed'
<1>0. /\ pc \in [Pages -> {"off", "open", "snapshot", "streaming", "leaving"}]
      /\ chan \in [Pages -> Seq(Row)] /\ rows \in [Pages -> SUBSET Row]
      /\ dropped \in [Pages -> SUBSET Row] /\ blind \in [Pages -> SUBSET Row]
  BY DEF TypeOK
<1>1. UNCHANGED <<log, owed, gap, pub>>
  BY DEF PageStep, Open, Subscribe, Refuse, Snapshot, Forward, Hangup, Unsubscribe, Reset,
         feedVars, hubVars
(* A page is affected by its own handler only. *)
<1>2. ASSUME NEW w \in Pages, w # v
      PROVE  pc'[w] = pc[w] /\ Accounted(w)' = Accounted(w)
  <2>1. /\ pc'[w] = pc[w] /\ chan'[w] = chan[w] /\ dropped'[w] = dropped[w]
    BY <1>0, <1>2 DEF PageStep, Open, Subscribe, Refuse, Snapshot, Forward, Hangup,
       Unsubscribe, Reset, Goto, hubVars, pageVars
  <2>2. rows'[w] = rows[w] /\ blind'[w] = blind[w]
    <3>1. CASE Refuse(v) \/ Snapshot(v)
      <4>. DEFINE all == 1..log
      <4>1. \/ rows' = [rows EXCEPT ![v] = all] /\ blind' = [blind EXCEPT ![v] = {}]
            \/ rows' = [rows EXCEPT ![v] = {}] /\ blind' = [blind EXCEPT ![v] = all]
        BY <3>1 DEF Refuse, Snapshot, ShowSnapshot
      <4>. HIDE DEF all
      <4>. QED
        BY <1>0, <1>2, <4>1
    <3>2. CASE Open(v) \/ Subscribe(v) \/ Forward(v) \/ Hangup(v) \/ Unsubscribe(v) \/ Reset(v)
      BY <1>0, <1>2, <3>2 DEF Open, Subscribe, Forward, Hangup, Unsubscribe, Reset, pageVars
    <3>. QED
      BY <3>1, <3>2 DEF PageStep
  <2>. QED
    BY <1>1, <2>1, <2>2 DEF Accounted, Queued, InHand
<1>. SUFFICES ASSUME pc'[v] = "streaming" PROVE 1..log \subseteq Accounted(v)'
  <2>1. ASSUME NEW w \in Pages, w # v, pc'[w] = "streaming"
        PROVE  1..log \subseteq Accounted(w)'
    BY <1>2, <2>1 DEF NothingElseMissed, Accounted
  <2>. QED
    BY <1>1, <2>1 DEF NothingElseMissed, Accounted
<1>3. CASE Snapshot(v)
  <2>. DEFINE all == 1..log
  <2>1. \/ rows' = [rows EXCEPT ![v] = all]
        \/ blind' = [blind EXCEPT ![v] = all]
    BY <1>3 DEF Snapshot, ShowSnapshot
  <2>. HIDE DEF all
  <2>2. all \subseteq rows'[v] \cup blind'[v]
    BY <1>0, <2>1
  <2>. QED
    BY <2>2 DEF all, Accounted
<1>4. CASE Forward(v) \/ Reset(v)
  <2>1. pc[v] = "streaming"
    BY <1>4 DEF Forward, Reset
  <2>2. 1..log \subseteq Accounted(v)
    BY <2>1 DEF NothingElseMissed, Accounted
  <2>3. Accounted(v) \subseteq Accounted(v)'
    <3>1. InHand(v)' = InHand(v)
      BY <1>1 DEF InHand
    <3>2. CASE Forward(v)
      <4>1. /\ chan[v] \in Seq(Row) /\ chan[v] # <<>> /\ chan'[v] = Tail(chan[v])
            /\ rows'[v] = rows[v] \cup {Head(chan[v])}
        BY <1>0, <3>2 DEF Forward, MergeRow
      <4>2. Queued(v) \cup rows[v] \subseteq Queued(v)' \cup rows'[v]
        BY <4>1, ReceiveQueued DEF Queued
      <4>. QED
        BY <1>1, <3>1, <3>2, <4>2 DEF Forward, Accounted
    <3>3. CASE Reset(v)
      <4>1. Queued(v)' = Queued(v) /\ dropped' = dropped
        BY <3>3 DEF Reset, hubVars, Queued
      <4>2. blind'[v] = blind[v] \cup rows[v]
        BY <1>0, <3>3 DEF Reset
      <4>. QED
        BY <1>1, <3>1, <4>1, <4>2 DEF Accounted
    <3>. QED
      BY <1>4, <3>2, <3>3
  <2>. QED
    BY <2>2, <2>3
<1>5. CASE Open(v) \/ Subscribe(v) \/ Refuse(v) \/ Hangup(v) \/ Unsubscribe(v)
  <2>1. pc'[v] # "streaming"
    BY <1>0, <1>5 DEF Open, Subscribe, Refuse, Hangup, Unsubscribe, Goto
  <2>. QED
    BY <2>1
<1>. QED
  BY <1>3, <1>4, <1>5 DEF PageStep

LEMMA NextRows ==
  TypeInv /\ SlotsAreHeld /\ NothingElseMissed /\ [Next]_vars => NothingElseMissed'
<1>. SUFFICES ASSUME TypeInv, SlotsAreHeld, NothingElseMissed, [Next]_vars
              PROVE  NothingElseMissed'
  OBVIOUS
<1>1. TypeOK
  BY DEF TypeInv
<1>2. CASE UNCHANGED vars
  BY <1>1, <1>2, RowsKept DEF vars, feedVars, hubVars, pageVars, Accounted, Queued, InHand
<1>3. CASE Unlock
  BY <1>1, <1>3, RowsKept DEF Unlock, Unlocked, feedVars, pageVars, Accounted, Queued, InHand
<1>. QED
  BY <1>1, <1>2, <1>3, FeedRows, PublishRows, PageRows DEF Next, Publishing

(* Nothing falls between the snapshot and the subscription: a committed row *)
(* is shown, on its way, or lost where the code gives it up knowingly.      *)
THEOREM RowsCorrect == Spec => []NothingElseMissed
<1>1. Init => NothingElseMissed
  BY DEF Init, NothingElseMissed
<1>2. /\ TypeInv /\ SlotsAreHeld /\ NothingElseMissed /\ [Next]_vars
      => TypeInv' /\ SlotsAreHeld' /\ NothingElseMissed'
  BY NextTypes, NextSlots, NextRows DEF TypeInv
<1>. QED
  BY <1>1, <1>2, InitTypes, InitSlots, PTL DEF Spec
=============================================================================
