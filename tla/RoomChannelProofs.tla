------------------------- MODULE RoomChannelProofs -------------------------
(***************************************************************************)
(* Proofs about the members and rooms of Communities, beside everything that *)
(* RoomChannel adds to them, and about what its sockets and reactions carry. *)
(***************************************************************************)
EXTENDS RoomChannel, TLAPS

Ops == {"none", "found", "room", "accept", "grant", "revoke", "remove", "post", "react"}
Steps == {"idle", "hall", "insert", "read", "seat", "sync", "answer", "role", "join", "list", "enter", "target", "end",
          "clear", "affected", "rooms", "append", "cast", "write"}
RunType == [op : Ops, pc : Steps, who : People \cup {Nothing}, room : Rooms \cup {Nothing},
            access : {"none", "all_members", "restricted"}, todo : SUBSET (People \cup Rooms)]

RoomTypeOK ==
  /\ community \in BOOLEAN /\ hall \subseteq People
  /\ policy \in [Rooms -> {"absent", "none", "all_members", "restricted"}] /\ seats \in [Rooms -> SUBSET People]
  /\ run \in [Requests -> RunType]
  /\ \A r \in Requests : run[r].op \notin {"none", "found", "room"} => run[r].who \in People
  /\ reactions \in [Rooms -> SUBSET (People \cup Rooms)]

\* Before a community is founded there is nothing else.
Untouched ==
  ~community => /\ hall = {} /\ \A m \in Rooms : policy[m] = "absent" /\ seats[m] = {}
                /\ \A r \in Requests : run[r] = NotStarted

\* A run that makes a room is the only one to, and the room is there once it is inserted.
Building(r) == run[r].op \in {"found", "room"} /\ run[r].pc \in {"hall", "insert", "read", "seat"}
Builders ==
  /\ \A r \in Requests :
       Building(r) => /\ run[r].room \in Rooms /\ run[r].access \in {"all_members", "restricted"}
                      /\ policy[run[r].room] = IF run[r].pc \in {"hall", "insert"} THEN "absent" ELSE run[r].access
  /\ \A q, r \in Requests : Building(q) /\ Building(r) /\ q # r => run[q].room # run[r].room
  /\ \A r \in Requests :
       run[r].op = "revoke" /\ run[r].pc = "clear" => run[r].room \in Rooms /\ policy[run[r].room] = "restricted"

\* A run is to seat members, accounts that are being removed, and ones whose removal
\* cleared the rooms after the run had read that they are members.
Grounded ==
  \A r \in Working : \A a \in People : ToSeat(r, a) => a \in hall \/ BeingRemoved(a) \/ a \in crossed

RoomInv == RoomTypeOK /\ Untouched /\ Builders /\ Grounded /\ RoomsWithin /\ RoomsComplete

LEMMA RoomStart == RoomInit => RoomInv
<1> SUFFICES ASSUME RoomInit PROVE RoomInv
  OBVIOUS
<1>1. /\ community = FALSE /\ hall = {} /\ run = [r \in Requests |-> NotStarted]
      /\ policy = [m \in Rooms |-> "absent"] /\ seats = [m \in Rooms |-> {}]
  BY DEF RoomInit, Init
<1>2. RoomTypeOK
  BY <1>1 DEF RoomInit, ChannelInit, RoomTypeOK, RunType, Ops, Steps, NotStarted
<1>3. \A r \in Requests : run[r] = NotStarted /\ run[r].pc = "idle" /\ run[r].op = "none"
  BY <1>1 DEF NotStarted
<1>4. Builders /\ Grounded
  BY <1>3 DEF Builders, Building, Grounded, Working
<1> QED
  BY <1>1, <1>2, <1>3, <1>4 DEF RoomInv, Untouched, RoomsWithin, RoomsComplete

-----------------------------------------------------------------------------
(* What it takes that a step of r keeps the invariant.                      *)

LEMMA BuildersKept ==
  ASSUME RoomInv, NEW r \in Requests,
         \A q \in Requests : q # r => run'[q] = run[q],
         policy' = policy,
         Building(r)' => /\ Building(r) /\ run'[r].room = run[r].room /\ run'[r].access = run[r].access
                         /\ run'[r].pc \in {"hall", "insert"} <=> run[r].pc \in {"hall", "insert"},
         run'[r].op = "revoke" /\ run'[r].pc = "clear" => run'[r].room \in Rooms /\ policy[run'[r].room] = "restricted"
  PROVE  Builders'
<1>1. \A q \in Requests : Building(q)' => /\ Building(q) /\ run'[q].room = run[q].room /\ run'[q].access = run[q].access
                                          /\ run'[q].pc \in {"hall", "insert"} <=> run[q].pc \in {"hall", "insert"}
  BY DEF Building
<1>2. \A q \in Requests :
        run'[q].op = "revoke" /\ run'[q].pc = "clear" => run'[q].room \in Rooms /\ policy[run'[q].room] = "restricted"
  BY DEF RoomInv, Builders
<1> QED
  BY <1>1, <1>2 DEF RoomInv, Builders

LEMMA StepKeeps ==
  ASSUME RoomInv, NEW r \in Requests,
         \A q \in Requests : q # r => run'[q] = run[q],
         hall' \subseteq People, \A m \in Rooms : seats'[m] \subseteq People,
         lost' = lost, crossed' = crossed,
         \A m \in OpenRooms' : m \in OpenRooms \/ \A a \in People : YetToSeat(r, a, m)',
         \A a \in People : BeingRemoved(a) => BeingRemoved(a)',
         \A a \in hall : a \in hall' \/ BeingRemoved(a)',
         \A a \in People : r \in Working' /\ ToSeat(r, a)' => a \in hall' \/ (r \in Working /\ ToSeat(r, a)),
         \A m \in Rooms : \A a \in seats'[m] : a \in seats[m] \/ a \in hall' \/ (r \in Working /\ ToSeat(r, a)),
         \A a \in hall', m \in OpenRooms :
           a \notin hall \/ a \in seats[m] \/ a \in missed \/ YetToSeat(r, a, m)
             => a \in seats'[m] \/ a \in missed' \/ YetToSeat(r, a, m)'
  PROVE  Grounded' /\ RoomsWithin' /\ RoomsComplete'
<1>1. \A q \in Requests : q # r => \A a, m : /\ ToSeat(q, a)' <=> ToSeat(q, a)
                                             /\ YetToSeat(q, a, m)' <=> YetToSeat(q, a, m)
                                             /\ q \in Working' <=> q \in Working
  BY DEF ToSeat, YetToSeat, Working
<1>2. Grounded'
  <2> SUFFICES ASSUME NEW q \in Working', NEW a \in People, ToSeat(q, a)'
               PROVE  a \in hall' \/ BeingRemoved(a)' \/ a \in crossed'
    BY DEF Grounded
  <2>1. a \in hall' \/ (q \in Working /\ ToSeat(q, a))
    BY <1>1 DEF Working
  <2> QED
    BY <2>1 DEF RoomInv, Grounded
<1>3. RoomsWithin'
  <2> SUFFICES ASSUME NEW m \in Rooms, NEW a \in seats'[m], a \notin hall'
               PROVE  BeingRemoved(a)' \/ a \in crossed'
    BY DEF RoomsWithin
  <2>1. a \in People
    OBVIOUS
  <2>2. CASE a \in seats[m]
    BY <2>1, <2>2 DEF RoomInv, RoomsWithin
  <2>3. CASE r \in Working /\ ToSeat(r, a)
    BY <2>1, <2>3 DEF RoomInv, Grounded
  <2> QED
    BY <2>2, <2>3
<1>4. RoomsComplete'
  <2> SUFFICES ASSUME NEW a \in hall', NEW m \in OpenRooms'
               PROVE  a \in seats'[m] \/ a \in missed' \/ \E q \in Requests : YetToSeat(q, a, m)'
    BY DEF RoomsComplete
  <2> SUFFICES ASSUME m \in OpenRooms
               PROVE  a \in seats'[m] \/ a \in missed' \/ \E q \in Requests : YetToSeat(q, a, m)'
    OBVIOUS
  <2>2. a \notin hall \/ a \in seats[m] \/ a \in missed \/ \E q \in Requests : YetToSeat(q, a, m)
    BY DEF RoomInv, RoomsComplete
  <2>3. CASE \E q \in Requests : q # r /\ YetToSeat(q, a, m)
    BY <1>1, <2>3
  <2>4. CASE a \notin hall \/ a \in seats[m] \/ a \in missed \/ YetToSeat(r, a, m)
    BY <2>4
  <2> QED
    BY <2>2, <2>3, <2>4
<1> QED
  BY <1>2, <1>3, <1>4

LEMMA LetInKeeps ==
  ASSUME RoomInv, NEW r \in Requests, NEW b \in People, LetIn(r, b), reactions' \in [Rooms -> SUBSET (People \cup Rooms)]
  PROVE  RoomInv'
<1>1. /\ run[r].op = "found" /\ run[r].pc = "hall" /\ r \notin lost /\ b \in run[r].todo
      /\ hall' = hall \cup {b}
      /\ missed' = IF OpenRooms # {} THEN missed \cup {b} ELSE missed
      /\ UNCHANGED <<community, policy, seats, crossed, lost>>
  BY DEF LetIn, At
<1>2. /\ run' \in [Requests -> RunType]
      /\ run'[r].op = run[r].op
      /\ run'[r].pc = IF run[r].todo = {b} THEN "insert" ELSE "hall"
      /\ run'[r].who = run[r].who
      /\ run'[r].room = run[r].room
      /\ run'[r].access = run[r].access
      /\ run'[r].todo = run[r].todo \ {b}
      /\ \A q \in Requests : q # r => run'[q] = run[q]
  <2> DEFINE pc == IF run[r].todo = {b} THEN "insert" ELSE run[r].pc
             todo == run[r].todo \ {b}
             w == [run[r] EXCEPT !.todo = todo, !.pc = pc]
  <2>1. run[r] \in RunType /\ pc \in Steps /\ todo \in SUBSET (People \cup Rooms)
    BY <1>1 DEF RoomInv, RoomTypeOK, RunType, Steps, AfterRooms, OpenRooms, Seated, Builders, Building
  <2> HIDE DEF pc, todo
  <2>2. /\ w \in RunType /\ w.op = run[r].op /\ w.pc = pc /\ w.who = run[r].who /\ w.room = run[r].room
        /\ w.access = run[r].access /\ w.todo = todo
    BY <2>1 DEF RunType
  <2> USE DEF pc, todo
  <2>3. run' = [run EXCEPT ![r] = w]
    BY <1>1, <2>1 DEF LetIn, At, RunType
  <2>4. run \in [Requests -> RunType]
    BY DEF RoomInv, RoomTypeOK
  <2>5. run' \in [Requests -> RunType] /\ run'[r] = w /\ \A q \in Requests : q # r => run'[q] = run[q]
    BY <2>2, <2>3, <2>4
  <2> QED
    BY <1>1, <2>2, <2>5
<1>3. /\ community /\ OpenRooms' = OpenRooms /\ hall' \subseteq People /\ seats' \in [Rooms -> SUBSET People]
      /\ \A q \in Requests : run'[q].op \notin {"none", "found", "room"} => run'[q].who \in People
  <2>1. community
    BY <1>1 DEF RoomInv, RoomTypeOK, Untouched, NotStarted
  <2>2. OpenRooms' = OpenRooms /\ hall' \subseteq People /\ seats' \in [Rooms -> SUBSET People]
    BY <1>1 DEF RoomInv, RoomTypeOK, OpenRooms
  <2>3. \A q \in Requests : run'[q].op \notin {"none", "found", "room"} => run'[q].who \in People
    BY <1>1, <1>2 DEF RoomInv, RoomTypeOK
  <2> QED
    BY <2>1, <2>2, <2>3
<1>4. Builders'
  BY <1>1, <1>2, BuildersKept DEF Building, AfterRooms
<1>5. \A a \in People : BeingRemoved(a) => BeingRemoved(a)'
  BY <1>1, <1>2 DEF BeingRemoved
<1>6. \A a \in hall : a \in hall' \/ BeingRemoved(a)'
  BY <1>1, <1>2 DEF BeingRemoved
<1>7. \A a \in People : r \in Working' /\ ToSeat(r, a)' => a \in hall' \/ (r \in Working /\ ToSeat(r, a))
  BY <1>1, <1>2 DEF ToSeat, Working, Seated, AfterRooms
<1>8. \A m \in Rooms : \A a \in seats'[m] : a \in seats[m] \/ a \in hall' \/ (r \in Working /\ ToSeat(r, a))
  BY <1>1, <1>2 DEF ToSeat, Working, RoomInv, RoomTypeOK
<1>9. \A a \in hall', m \in OpenRooms :
        a \notin hall \/ a \in seats[m] \/ a \in missed \/ YetToSeat(r, a, m)
          => a \in seats'[m] \/ a \in missed' \/ YetToSeat(r, a, m)'
  BY <1>1, <1>2 DEF YetToSeat, OpenRooms, RoomInv, RoomTypeOK, Builders, Building, Seated, AfterRooms
<1>10. Grounded' /\ RoomsWithin' /\ RoomsComplete'
  BY <1>1, <1>2, <1>3, <1>5, <1>6, <1>7, <1>8, <1>9, StepKeeps
<1> QED
  BY <1>1, <1>2, <1>3, <1>4, <1>10 DEF RoomInv, RoomTypeOK, Untouched

LEMMA ReadHallKeeps ==
  ASSUME RoomInv, NEW r \in Requests, ReadHall(r), reactions' \in [Rooms -> SUBSET (People \cup Rooms)]
  PROVE  RoomInv'
<1>1. /\ run[r].op \in {"found", "room"} /\ run[r].pc = "read" /\ r \notin lost
      /\ UNCHANGED <<community, hall, policy, seats, crossed, missed, lost>>
  BY DEF ReadHall, At, memberVars
<1>2. /\ run' \in [Requests -> RunType]
      /\ run'[r].op = run[r].op
      /\ run'[r].pc = "seat"
      /\ run'[r].who = run[r].who
      /\ run'[r].room = run[r].room
      /\ run'[r].access = run[r].access
      /\ run'[r].todo = Seated(r)
      /\ \A q \in Requests : q # r => run'[q] = run[q]
  <2> DEFINE pc == "seat"
             todo == Seated(r)
             w == [run[r] EXCEPT !.todo = todo, !.pc = pc]
  <2>1. run[r] \in RunType /\ pc \in Steps /\ todo \in SUBSET (People \cup Rooms)
    BY <1>1 DEF RoomInv, RoomTypeOK, RunType, Steps, AfterRooms, OpenRooms, Seated, Builders, Building
  <2> HIDE DEF pc, todo
  <2>2. /\ w \in RunType /\ w.op = run[r].op /\ w.pc = pc /\ w.who = run[r].who /\ w.room = run[r].room
        /\ w.access = run[r].access /\ w.todo = todo
    BY <2>1 DEF RunType
  <2> USE DEF pc, todo
  <2>3. run' = [run EXCEPT ![r] = w]
    BY <1>1, <2>1 DEF ReadHall, At, memberVars, RunType
  <2>4. run \in [Requests -> RunType]
    BY DEF RoomInv, RoomTypeOK
  <2>5. run' \in [Requests -> RunType] /\ run'[r] = w /\ \A q \in Requests : q # r => run'[q] = run[q]
    BY <2>2, <2>3, <2>4
  <2> QED
    BY <1>1, <2>2, <2>5
<1>3. /\ community /\ OpenRooms' = OpenRooms /\ hall' \subseteq People /\ seats' \in [Rooms -> SUBSET People]
      /\ \A q \in Requests : run'[q].op \notin {"none", "found", "room"} => run'[q].who \in People
  <2>1. community
    BY <1>1 DEF RoomInv, RoomTypeOK, Untouched, NotStarted
  <2>2. OpenRooms' = OpenRooms /\ hall' \subseteq People /\ seats' \in [Rooms -> SUBSET People]
    BY <1>1 DEF RoomInv, RoomTypeOK, OpenRooms
  <2>3. \A q \in Requests : run'[q].op \notin {"none", "found", "room"} => run'[q].who \in People
    BY <1>1, <1>2 DEF RoomInv, RoomTypeOK
  <2> QED
    BY <2>1, <2>2, <2>3
<1>4. Builders'
  BY <1>1, <1>2, BuildersKept DEF Building, AfterRooms
<1>5. \A a \in People : BeingRemoved(a) => BeingRemoved(a)'
  BY <1>1, <1>2 DEF BeingRemoved
<1>6. \A a \in hall : a \in hall' \/ BeingRemoved(a)'
  BY <1>1, <1>2 DEF BeingRemoved
<1>7. \A a \in People : r \in Working' /\ ToSeat(r, a)' => a \in hall' \/ (r \in Working /\ ToSeat(r, a))
  BY <1>1, <1>2 DEF ToSeat, Working, Seated, AfterRooms
<1>8. \A m \in Rooms : \A a \in seats'[m] : a \in seats[m] \/ a \in hall' \/ (r \in Working /\ ToSeat(r, a))
  BY <1>1, <1>2 DEF ToSeat, Working, RoomInv, RoomTypeOK
<1>9. \A a \in hall', m \in OpenRooms :
        a \notin hall \/ a \in seats[m] \/ a \in missed \/ YetToSeat(r, a, m)
          => a \in seats'[m] \/ a \in missed' \/ YetToSeat(r, a, m)'
  BY <1>1, <1>2 DEF YetToSeat, OpenRooms, RoomInv, RoomTypeOK, Builders, Building, Seated, AfterRooms
<1>10. Grounded' /\ RoomsWithin' /\ RoomsComplete'
  BY <1>1, <1>2, <1>3, <1>5, <1>6, <1>7, <1>8, <1>9, StepKeeps
<1> QED
  BY <1>1, <1>2, <1>3, <1>4, <1>10 DEF RoomInv, RoomTypeOK, Untouched

LEMMA SeatMemberKeeps ==
  ASSUME RoomInv, NEW r \in Requests, NEW b \in People, SeatMember(r, b), reactions' \in [Rooms -> SUBSET (People \cup Rooms)]
  PROVE  RoomInv'
<1>1. /\ run[r].op \in {"found", "room"} /\ run[r].pc = "seat" /\ r \notin lost /\ b \in run[r].todo
      /\ seats' = [seats EXCEPT ![run[r].room] = @ \cup {b}]
      /\ UNCHANGED <<community, hall, policy, crossed, missed, lost>>
  BY DEF SeatMember, At, Seat
<1>2. /\ run' \in [Requests -> RunType]
      /\ run'[r].op = run[r].op
      /\ run'[r].pc = IF run[r].todo = {b} THEN "sync" ELSE "seat"
      /\ run'[r].who = run[r].who
      /\ run'[r].room = run[r].room
      /\ run'[r].access = run[r].access
      /\ run'[r].todo = IF run[r].todo = {b} THEN {run[r].room} ELSE run[r].todo \ {b}
      /\ \A q \in Requests : q # r => run'[q] = run[q]
  <2> DEFINE pc == IF run[r].todo = {b} THEN "sync" ELSE run[r].pc
             todo == IF run[r].todo = {b} THEN {run[r].room} ELSE run[r].todo \ {b}
             w == [run[r] EXCEPT !.todo = todo, !.pc = pc]
  <2>1. run[r] \in RunType /\ pc \in Steps /\ todo \in SUBSET (People \cup Rooms)
    BY <1>1 DEF RoomInv, RoomTypeOK, RunType, Steps, AfterRooms, OpenRooms, Seated, Builders, Building
  <2> HIDE DEF pc, todo
  <2>2. /\ w \in RunType /\ w.op = run[r].op /\ w.pc = pc /\ w.who = run[r].who /\ w.room = run[r].room
        /\ w.access = run[r].access /\ w.todo = todo
    BY <2>1 DEF RunType
  <2> USE DEF pc, todo
  <2>3. run' = [run EXCEPT ![r] = w]
    BY <1>1, <2>1 DEF SeatMember, At, Seat, RunType
  <2>4. run \in [Requests -> RunType]
    BY DEF RoomInv, RoomTypeOK
  <2>5. run' \in [Requests -> RunType] /\ run'[r] = w /\ \A q \in Requests : q # r => run'[q] = run[q]
    BY <2>2, <2>3, <2>4
  <2> QED
    BY <1>1, <2>2, <2>5
<1>3. /\ community /\ OpenRooms' = OpenRooms /\ hall' \subseteq People /\ seats' \in [Rooms -> SUBSET People]
      /\ \A q \in Requests : run'[q].op \notin {"none", "found", "room"} => run'[q].who \in People
  <2>1. community
    BY <1>1 DEF RoomInv, RoomTypeOK, Untouched, NotStarted
  <2>2. OpenRooms' = OpenRooms /\ hall' \subseteq People /\ seats' \in [Rooms -> SUBSET People]
    BY <1>1 DEF RoomInv, RoomTypeOK, OpenRooms
  <2>3. \A q \in Requests : run'[q].op \notin {"none", "found", "room"} => run'[q].who \in People
    BY <1>1, <1>2 DEF RoomInv, RoomTypeOK
  <2> QED
    BY <2>1, <2>2, <2>3
<1>4. Builders'
  BY <1>1, <1>2, BuildersKept DEF Building, AfterRooms
<1>5. \A a \in People : BeingRemoved(a) => BeingRemoved(a)'
  BY <1>1, <1>2 DEF BeingRemoved
<1>6. \A a \in hall : a \in hall' \/ BeingRemoved(a)'
  BY <1>1, <1>2 DEF BeingRemoved
<1>7. \A a \in People : r \in Working' /\ ToSeat(r, a)' => a \in hall' \/ (r \in Working /\ ToSeat(r, a))
  BY <1>1, <1>2 DEF ToSeat, Working, Seated, AfterRooms
<1>8. \A m \in Rooms : \A a \in seats'[m] : a \in seats[m] \/ a \in hall' \/ (r \in Working /\ ToSeat(r, a))
  BY <1>1, <1>2 DEF ToSeat, Working, RoomInv, RoomTypeOK
<1>9. \A a \in hall', m \in OpenRooms :
        a \notin hall \/ a \in seats[m] \/ a \in missed \/ YetToSeat(r, a, m)
          => a \in seats'[m] \/ a \in missed' \/ YetToSeat(r, a, m)'
  BY <1>1, <1>2 DEF YetToSeat, OpenRooms, RoomInv, RoomTypeOK, Builders, Building, Seated, AfterRooms
<1>10. Grounded' /\ RoomsWithin' /\ RoomsComplete'
  BY <1>1, <1>2, <1>3, <1>5, <1>6, <1>7, <1>8, <1>9, StepKeeps
<1> QED
  BY <1>1, <1>2, <1>3, <1>4, <1>10 DEF RoomInv, RoomTypeOK, Untouched

LEMMA JoinHallKeeps ==
  ASSUME RoomInv, NEW r \in Requests, JoinHall(r), reactions' \in [Rooms -> SUBSET (People \cup Rooms)]
  PROVE  RoomInv'
<1>1. /\ run[r].op = "accept" /\ run[r].pc = "join" /\ r \notin lost
      /\ hall' = hall \cup {run[r].who}
      /\ UNCHANGED <<community, policy, seats, crossed, missed, lost>>
  BY DEF JoinHall, At, Goto
<1>2. /\ run' \in [Requests -> RunType]
      /\ run'[r].op = run[r].op
      /\ run'[r].pc = "role"
      /\ run'[r].who = run[r].who
      /\ run'[r].room = run[r].room
      /\ run'[r].access = run[r].access
      /\ run'[r].todo = run[r].todo
      /\ \A q \in Requests : q # r => run'[q] = run[q]
  BY DEF JoinHall, At, Goto, RoomInv, RoomTypeOK, RunType, Ops, Steps, AfterRooms, OpenRooms, Created, Seated
<1>3. /\ community /\ OpenRooms' = OpenRooms /\ hall' \subseteq People /\ seats' \in [Rooms -> SUBSET People]
      /\ \A q \in Requests : run'[q].op \notin {"none", "found", "room"} => run'[q].who \in People
  <2>1. community
    BY <1>1 DEF RoomInv, RoomTypeOK, Untouched, NotStarted
  <2>2. OpenRooms' = OpenRooms /\ hall' \subseteq People /\ seats' \in [Rooms -> SUBSET People]
    BY <1>1 DEF RoomInv, RoomTypeOK, OpenRooms
  <2>3. \A q \in Requests : run'[q].op \notin {"none", "found", "room"} => run'[q].who \in People
    BY <1>1, <1>2 DEF RoomInv, RoomTypeOK
  <2> QED
    BY <2>1, <2>2, <2>3
<1>4. Builders'
  BY <1>1, <1>2, BuildersKept DEF Building, AfterRooms
<1>5. \A a \in People : BeingRemoved(a) => BeingRemoved(a)'
  BY <1>1, <1>2 DEF BeingRemoved
<1>6. \A a \in hall : a \in hall' \/ BeingRemoved(a)'
  BY <1>1, <1>2 DEF BeingRemoved
<1>7. \A a \in People : r \in Working' /\ ToSeat(r, a)' => a \in hall' \/ (r \in Working /\ ToSeat(r, a))
  BY <1>1, <1>2 DEF ToSeat, Working, Seated, AfterRooms
<1>8. \A m \in Rooms : \A a \in seats'[m] : a \in seats[m] \/ a \in hall' \/ (r \in Working /\ ToSeat(r, a))
  BY <1>1, <1>2 DEF ToSeat, Working, RoomInv, RoomTypeOK
<1>9. \A a \in hall', m \in OpenRooms :
        a \notin hall \/ a \in seats[m] \/ a \in missed \/ YetToSeat(r, a, m)
          => a \in seats'[m] \/ a \in missed' \/ YetToSeat(r, a, m)'
  BY <1>1, <1>2 DEF YetToSeat, OpenRooms, RoomInv, RoomTypeOK, Builders, Building, Seated, AfterRooms
<1>10. Grounded' /\ RoomsWithin' /\ RoomsComplete'
  BY <1>1, <1>2, <1>3, <1>5, <1>6, <1>7, <1>8, <1>9, StepKeeps
<1> QED
  BY <1>1, <1>2, <1>3, <1>4, <1>10 DEF RoomInv, RoomTypeOK, Untouched

LEMMA ReadRoleKeeps ==
  ASSUME RoomInv, NEW r \in Requests, ReadRole(r), run[r].who \in hall, reactions' \in [Rooms -> SUBSET (People \cup Rooms)]
  PROVE  RoomInv'
<1>1. /\ run[r].op = "accept" /\ run[r].pc = "role" /\ r \notin lost
      /\ UNCHANGED <<community, hall, policy, seats, crossed, missed, lost>>
  BY DEF ReadRole, At, Goto, memberVars
<1>2. /\ run' \in [Requests -> RunType]
      /\ run'[r].op = run[r].op
      /\ run'[r].pc = "list"
      /\ run'[r].who = run[r].who
      /\ run'[r].room = run[r].room
      /\ run'[r].access = run[r].access
      /\ run'[r].todo = run[r].todo
      /\ \A q \in Requests : q # r => run'[q] = run[q]
  BY DEF ReadRole, At, Goto, memberVars, RoomInv, RoomTypeOK, RunType, Ops, Steps, AfterRooms, OpenRooms, Created, Seated
<1>3. /\ community /\ OpenRooms' = OpenRooms /\ hall' \subseteq People /\ seats' \in [Rooms -> SUBSET People]
      /\ \A q \in Requests : run'[q].op \notin {"none", "found", "room"} => run'[q].who \in People
  <2>1. community
    BY <1>1 DEF RoomInv, RoomTypeOK, Untouched, NotStarted
  <2>2. OpenRooms' = OpenRooms /\ hall' \subseteq People /\ seats' \in [Rooms -> SUBSET People]
    BY <1>1 DEF RoomInv, RoomTypeOK, OpenRooms
  <2>3. \A q \in Requests : run'[q].op \notin {"none", "found", "room"} => run'[q].who \in People
    BY <1>1, <1>2 DEF RoomInv, RoomTypeOK
  <2> QED
    BY <2>1, <2>2, <2>3
<1>4. Builders'
  BY <1>1, <1>2, BuildersKept DEF Building, AfterRooms
<1>5. \A a \in People : BeingRemoved(a) => BeingRemoved(a)'
  BY <1>1, <1>2 DEF BeingRemoved
<1>6. \A a \in hall : a \in hall' \/ BeingRemoved(a)'
  BY <1>1, <1>2 DEF BeingRemoved
<1>7. \A a \in People : r \in Working' /\ ToSeat(r, a)' => a \in hall' \/ (r \in Working /\ ToSeat(r, a))
  BY <1>1, <1>2 DEF ToSeat, Working, Seated, AfterRooms
<1>8. \A m \in Rooms : \A a \in seats'[m] : a \in seats[m] \/ a \in hall' \/ (r \in Working /\ ToSeat(r, a))
  BY <1>1, <1>2 DEF ToSeat, Working, RoomInv, RoomTypeOK
<1>9. \A a \in hall', m \in OpenRooms :
        a \notin hall \/ a \in seats[m] \/ a \in missed \/ YetToSeat(r, a, m)
          => a \in seats'[m] \/ a \in missed' \/ YetToSeat(r, a, m)'
  BY <1>1, <1>2 DEF YetToSeat, OpenRooms, RoomInv, RoomTypeOK, Builders, Building, Seated, AfterRooms
<1>10. Grounded' /\ RoomsWithin' /\ RoomsComplete'
  BY <1>1, <1>2, <1>3, <1>5, <1>6, <1>7, <1>8, <1>9, StepKeeps
<1> QED
  BY <1>1, <1>2, <1>3, <1>4, <1>10 DEF RoomInv, RoomTypeOK, Untouched

LEMMA ListRoomsKeeps ==
  ASSUME RoomInv, NEW r \in Requests, ListRooms(r), reactions' \in [Rooms -> SUBSET (People \cup Rooms)]
  PROVE  RoomInv'
<1>1. /\ run[r].op = "accept" /\ run[r].pc = "list" /\ r \notin lost
      /\ missed' = missed \ {run[r].who}
      /\ UNCHANGED <<community, hall, policy, seats, crossed, lost>>
  BY DEF ListRooms, At
<1>2. /\ run' \in [Requests -> RunType]
      /\ run'[r].op = run[r].op
      /\ run'[r].pc = IF OpenRooms = {} THEN AfterRooms(r) ELSE "enter"
      /\ run'[r].who = run[r].who
      /\ run'[r].room = run[r].room
      /\ run'[r].access = run[r].access
      /\ run'[r].todo = OpenRooms
      /\ \A q \in Requests : q # r => run'[q] = run[q]
  <2>1. PICK to : to = IF OpenRooms = {} THEN AfterRooms(r) ELSE "enter"
    OBVIOUS
  <2>2. PICK rooms : rooms = OpenRooms
    OBVIOUS
  <2>3. to \in Steps /\ rooms \in SUBSET (People \cup Rooms) /\ run \in [Requests -> RunType]
    BY <2>1, <2>2 DEF AfterRooms, OpenRooms, Steps, RoomInv, RoomTypeOK, Created
  <2>4. run' = [run EXCEPT ![r].todo = rooms, ![r].pc = to]
    BY <2>1, <2>2 DEF ListRooms
  <2>5. /\ run' \in [Requests -> RunType]
        /\ run'[r].op = run[r].op /\ run'[r].pc = to /\ run'[r].who = run[r].who
        /\ run'[r].room = run[r].room /\ run'[r].access = run[r].access /\ run'[r].todo = rooms
        /\ \A q \in Requests : q # r => run'[q] = run[q]
    BY <2>3, <2>4 DEF RunType
  <2> QED
    BY <2>1, <2>2, <2>5
<1>3. /\ community /\ OpenRooms' = OpenRooms /\ hall' \subseteq People /\ seats' \in [Rooms -> SUBSET People]
      /\ \A q \in Requests : run'[q].op \notin {"none", "found", "room"} => run'[q].who \in People
  <2>1. community
    BY <1>1 DEF RoomInv, RoomTypeOK, Untouched, NotStarted
  <2>2. OpenRooms' = OpenRooms /\ hall' \subseteq People /\ seats' \in [Rooms -> SUBSET People]
    BY <1>1 DEF RoomInv, RoomTypeOK, OpenRooms
  <2>3. \A q \in Requests : run'[q].op \notin {"none", "found", "room"} => run'[q].who \in People
    BY <1>1, <1>2 DEF RoomInv, RoomTypeOK
  <2> QED
    BY <2>1, <2>2, <2>3
<1>4. Builders'
  BY <1>1, <1>2, BuildersKept DEF Building, AfterRooms
<1>5. \A a \in People : BeingRemoved(a) => BeingRemoved(a)'
  BY <1>1, <1>2 DEF BeingRemoved
<1>6. \A a \in hall : a \in hall' \/ BeingRemoved(a)'
  BY <1>1, <1>2 DEF BeingRemoved
<1>7. \A a \in People : r \in Working' /\ ToSeat(r, a)' => a \in hall' \/ (r \in Working /\ ToSeat(r, a))
  BY <1>1, <1>2 DEF ToSeat, Working, Seated, AfterRooms
<1>8. \A m \in Rooms : \A a \in seats'[m] : a \in seats[m] \/ a \in hall' \/ (r \in Working /\ ToSeat(r, a))
  BY <1>1, <1>2 DEF ToSeat, Working, RoomInv, RoomTypeOK
<1>9. \A a \in hall', m \in OpenRooms :
        a \notin hall \/ a \in seats[m] \/ a \in missed \/ YetToSeat(r, a, m)
          => a \in seats'[m] \/ a \in missed' \/ YetToSeat(r, a, m)'
  BY <1>1, <1>2 DEF YetToSeat, OpenRooms, RoomInv, RoomTypeOK, Builders, Building, Seated, AfterRooms
<1>10. Grounded' /\ RoomsWithin' /\ RoomsComplete'
  BY <1>1, <1>2, <1>3, <1>5, <1>6, <1>7, <1>8, <1>9, StepKeeps
<1> QED
  BY <1>1, <1>2, <1>3, <1>4, <1>10 DEF RoomInv, RoomTypeOK, Untouched

LEMMA EnterRoomKeeps ==
  ASSUME RoomInv, NEW r \in Requests, NEW k \in Rooms, EnterRoom(r, k), reactions' \in [Rooms -> SUBSET (People \cup Rooms)]
  PROVE  RoomInv'
<1>1. /\ run[r].op = "accept" /\ run[r].pc = "enter" /\ r \notin lost /\ k \in run[r].todo
      /\ seats' = [seats EXCEPT ![k] = @ \cup {run[r].who}]
      /\ UNCHANGED <<community, hall, policy, crossed, missed, lost>>
  BY DEF EnterRoom, At, Seat
<1>2. /\ run' \in [Requests -> RunType]
      /\ run'[r].op = run[r].op
      /\ run'[r].pc = IF run[r].todo = {k} THEN AfterRooms(r) ELSE "enter"
      /\ run'[r].who = run[r].who
      /\ run'[r].room = run[r].room
      /\ run'[r].access = run[r].access
      /\ run'[r].todo = run[r].todo \ {k}
      /\ \A q \in Requests : q # r => run'[q] = run[q]
  <2> DEFINE pc == IF run[r].todo = {k} THEN AfterRooms(r) ELSE run[r].pc
             todo == run[r].todo \ {k}
             w == [run[r] EXCEPT !.todo = todo, !.pc = pc]
  <2>1. run[r] \in RunType /\ pc \in Steps /\ todo \in SUBSET (People \cup Rooms)
    BY <1>1 DEF RoomInv, RoomTypeOK, RunType, Steps, AfterRooms, OpenRooms, Seated, Builders, Building
  <2> HIDE DEF pc, todo
  <2>2. /\ w \in RunType /\ w.op = run[r].op /\ w.pc = pc /\ w.who = run[r].who /\ w.room = run[r].room
        /\ w.access = run[r].access /\ w.todo = todo
    BY <2>1 DEF RunType
  <2> USE DEF pc, todo
  <2>3. run' = [run EXCEPT ![r] = w]
    BY <1>1, <2>1 DEF EnterRoom, At, Seat, RunType
  <2>4. run \in [Requests -> RunType]
    BY DEF RoomInv, RoomTypeOK
  <2>5. run' \in [Requests -> RunType] /\ run'[r] = w /\ \A q \in Requests : q # r => run'[q] = run[q]
    BY <2>2, <2>3, <2>4
  <2> QED
    BY <1>1, <2>2, <2>5
<1>3. /\ community /\ OpenRooms' = OpenRooms /\ hall' \subseteq People /\ seats' \in [Rooms -> SUBSET People]
      /\ \A q \in Requests : run'[q].op \notin {"none", "found", "room"} => run'[q].who \in People
  <2>1. community
    BY <1>1 DEF RoomInv, RoomTypeOK, Untouched, NotStarted
  <2>2. OpenRooms' = OpenRooms /\ hall' \subseteq People /\ seats' \in [Rooms -> SUBSET People]
    BY <1>1 DEF RoomInv, RoomTypeOK, OpenRooms
  <2>3. \A q \in Requests : run'[q].op \notin {"none", "found", "room"} => run'[q].who \in People
    BY <1>1, <1>2 DEF RoomInv, RoomTypeOK
  <2> QED
    BY <2>1, <2>2, <2>3
<1>4. Builders'
  BY <1>1, <1>2, BuildersKept DEF Building, AfterRooms
<1>5. \A a \in People : BeingRemoved(a) => BeingRemoved(a)'
  BY <1>1, <1>2 DEF BeingRemoved
<1>6. \A a \in hall : a \in hall' \/ BeingRemoved(a)'
  BY <1>1, <1>2 DEF BeingRemoved
<1>7. \A a \in People : r \in Working' /\ ToSeat(r, a)' => a \in hall' \/ (r \in Working /\ ToSeat(r, a))
  BY <1>1, <1>2 DEF ToSeat, Working, Seated, AfterRooms
<1>8. \A m \in Rooms : \A a \in seats'[m] : a \in seats[m] \/ a \in hall' \/ (r \in Working /\ ToSeat(r, a))
  BY <1>1, <1>2 DEF ToSeat, Working, RoomInv, RoomTypeOK
<1>9. \A a \in hall', m \in OpenRooms :
        a \notin hall \/ a \in seats[m] \/ a \in missed \/ YetToSeat(r, a, m)
          => a \in seats'[m] \/ a \in missed' \/ YetToSeat(r, a, m)'
  BY <1>1, <1>2 DEF YetToSeat, OpenRooms, RoomInv, RoomTypeOK, Builders, Building, Seated, AfterRooms
<1>10. Grounded' /\ RoomsWithin' /\ RoomsComplete'
  BY <1>1, <1>2, <1>3, <1>5, <1>6, <1>7, <1>8, <1>9, StepKeeps
<1> QED
  BY <1>1, <1>2, <1>3, <1>4, <1>10 DEF RoomInv, RoomTypeOK, Untouched

LEMMA ReadTargetKeeps ==
  ASSUME RoomInv, NEW r \in Requests, ReadTarget(r), reactions' \in [Rooms -> SUBSET (People \cup Rooms)]
  PROVE  RoomInv'
<1>1. /\ run[r].op = "accept" /\ run[r].pc = "target" /\ r \notin lost
      /\ UNCHANGED <<community, hall, policy, seats, crossed, missed, lost>>
  BY DEF ReadTarget, At, Goto, memberVars
<1>2. /\ run' \in [Requests -> RunType]
      /\ run'[r].op = run[r].op
      /\ run'[r].pc = IF run[r].who \in seats[run[r].room] THEN "end" ELSE "seat"
      /\ run'[r].who = run[r].who
      /\ run'[r].room = run[r].room
      /\ run'[r].access = run[r].access
      /\ run'[r].todo = run[r].todo
      /\ \A q \in Requests : q # r => run'[q] = run[q]
  BY DEF ReadTarget, At, Goto, memberVars, RoomInv, RoomTypeOK, RunType, Ops, Steps, AfterRooms, OpenRooms, Created, Seated
<1>3. /\ community /\ OpenRooms' = OpenRooms /\ hall' \subseteq People /\ seats' \in [Rooms -> SUBSET People]
      /\ \A q \in Requests : run'[q].op \notin {"none", "found", "room"} => run'[q].who \in People
  <2>1. community
    BY <1>1 DEF RoomInv, RoomTypeOK, Untouched, NotStarted
  <2>2. OpenRooms' = OpenRooms /\ hall' \subseteq People /\ seats' \in [Rooms -> SUBSET People]
    BY <1>1 DEF RoomInv, RoomTypeOK, OpenRooms
  <2>3. \A q \in Requests : run'[q].op \notin {"none", "found", "room"} => run'[q].who \in People
    BY <1>1, <1>2 DEF RoomInv, RoomTypeOK
  <2> QED
    BY <2>1, <2>2, <2>3
<1>4. Builders'
  BY <1>1, <1>2, BuildersKept DEF Building, AfterRooms
<1>5. \A a \in People : BeingRemoved(a) => BeingRemoved(a)'
  BY <1>1, <1>2 DEF BeingRemoved
<1>6. \A a \in hall : a \in hall' \/ BeingRemoved(a)'
  BY <1>1, <1>2 DEF BeingRemoved
<1>7. \A a \in People : r \in Working' /\ ToSeat(r, a)' => a \in hall' \/ (r \in Working /\ ToSeat(r, a))
  BY <1>1, <1>2 DEF ToSeat, Working, Seated, AfterRooms
<1>8. \A m \in Rooms : \A a \in seats'[m] : a \in seats[m] \/ a \in hall' \/ (r \in Working /\ ToSeat(r, a))
  BY <1>1, <1>2 DEF ToSeat, Working, RoomInv, RoomTypeOK
<1>9. \A a \in hall', m \in OpenRooms :
        a \notin hall \/ a \in seats[m] \/ a \in missed \/ YetToSeat(r, a, m)
          => a \in seats'[m] \/ a \in missed' \/ YetToSeat(r, a, m)'
  BY <1>1, <1>2 DEF YetToSeat, OpenRooms, RoomInv, RoomTypeOK, Builders, Building, Seated, AfterRooms
<1>10. Grounded' /\ RoomsWithin' /\ RoomsComplete'
  BY <1>1, <1>2, <1>3, <1>5, <1>6, <1>7, <1>8, <1>9, StepKeeps
<1> QED
  BY <1>1, <1>2, <1>3, <1>4, <1>10 DEF RoomInv, RoomTypeOK, Untouched

LEMMA EnterTargetKeeps ==
  ASSUME RoomInv, NEW r \in Requests, EnterTarget(r), reactions' \in [Rooms -> SUBSET (People \cup Rooms)]
  PROVE  RoomInv'
<1>1. /\ run[r].op = "accept" /\ run[r].pc = "seat" /\ r \notin lost
      /\ seats' = [seats EXCEPT ![run[r].room] = @ \cup {run[r].who}]
      /\ UNCHANGED <<community, hall, policy, crossed, missed, lost>>
  BY DEF EnterTarget, At, Seat, Goto
<1>2. /\ run' \in [Requests -> RunType]
      /\ run'[r].op = run[r].op
      /\ run'[r].pc = "end"
      /\ run'[r].who = run[r].who
      /\ run'[r].room = run[r].room
      /\ run'[r].access = run[r].access
      /\ run'[r].todo = run[r].todo
      /\ \A q \in Requests : q # r => run'[q] = run[q]
  BY DEF EnterTarget, At, Seat, Goto, RoomInv, RoomTypeOK, RunType, Ops, Steps, AfterRooms, OpenRooms, Created, Seated
<1>3. /\ community /\ OpenRooms' = OpenRooms /\ hall' \subseteq People /\ seats' \in [Rooms -> SUBSET People]
      /\ \A q \in Requests : run'[q].op \notin {"none", "found", "room"} => run'[q].who \in People
  <2>1. community
    BY <1>1 DEF RoomInv, RoomTypeOK, Untouched, NotStarted
  <2>2. OpenRooms' = OpenRooms /\ hall' \subseteq People /\ seats' \in [Rooms -> SUBSET People]
    BY <1>1 DEF RoomInv, RoomTypeOK, OpenRooms
  <2>3. \A q \in Requests : run'[q].op \notin {"none", "found", "room"} => run'[q].who \in People
    BY <1>1, <1>2 DEF RoomInv, RoomTypeOK
  <2> QED
    BY <2>1, <2>2, <2>3
<1>4. Builders'
  BY <1>1, <1>2, BuildersKept DEF Building, AfterRooms
<1>5. \A a \in People : BeingRemoved(a) => BeingRemoved(a)'
  BY <1>1, <1>2 DEF BeingRemoved
<1>6. \A a \in hall : a \in hall' \/ BeingRemoved(a)'
  BY <1>1, <1>2 DEF BeingRemoved
<1>7. \A a \in People : r \in Working' /\ ToSeat(r, a)' => a \in hall' \/ (r \in Working /\ ToSeat(r, a))
  BY <1>1, <1>2 DEF ToSeat, Working, Seated, AfterRooms
<1>8. \A m \in Rooms : \A a \in seats'[m] : a \in seats[m] \/ a \in hall' \/ (r \in Working /\ ToSeat(r, a))
  BY <1>1, <1>2 DEF ToSeat, Working, RoomInv, RoomTypeOK
<1>9. \A a \in hall', m \in OpenRooms :
        a \notin hall \/ a \in seats[m] \/ a \in missed \/ YetToSeat(r, a, m)
          => a \in seats'[m] \/ a \in missed' \/ YetToSeat(r, a, m)'
  BY <1>1, <1>2 DEF YetToSeat, OpenRooms, RoomInv, RoomTypeOK, Builders, Building, Seated, AfterRooms
<1>10. Grounded' /\ RoomsWithin' /\ RoomsComplete'
  BY <1>1, <1>2, <1>3, <1>5, <1>6, <1>7, <1>8, <1>9, StepKeeps
<1> QED
  BY <1>1, <1>2, <1>3, <1>4, <1>10 DEF RoomInv, RoomTypeOK, Untouched

LEMMA SeatGrantedKeeps ==
  ASSUME RoomInv, NEW r \in Requests, SeatGranted(r), reactions' \in [Rooms -> SUBSET (People \cup Rooms)]
  PROVE  RoomInv'
<1>1. /\ run[r].op = "grant" /\ run[r].pc = "seat" /\ r \notin lost
      /\ seats' = [seats EXCEPT ![run[r].room] = @ \cup {run[r].who}]
      /\ UNCHANGED <<community, hall, policy, crossed, missed, lost>>
  BY DEF SeatGranted, At, Seat, Goto
<1>2. /\ run' \in [Requests -> RunType]
      /\ run'[r].op = run[r].op
      /\ run'[r].pc = "sync"
      /\ run'[r].who = run[r].who
      /\ run'[r].room = run[r].room
      /\ run'[r].access = run[r].access
      /\ run'[r].todo = run[r].todo
      /\ \A q \in Requests : q # r => run'[q] = run[q]
  BY DEF SeatGranted, At, Seat, Goto, RoomInv, RoomTypeOK, RunType, Ops, Steps, AfterRooms, OpenRooms, Created, Seated
<1>3. /\ community /\ OpenRooms' = OpenRooms /\ hall' \subseteq People /\ seats' \in [Rooms -> SUBSET People]
      /\ \A q \in Requests : run'[q].op \notin {"none", "found", "room"} => run'[q].who \in People
  <2>1. community
    BY <1>1 DEF RoomInv, RoomTypeOK, Untouched, NotStarted
  <2>2. OpenRooms' = OpenRooms /\ hall' \subseteq People /\ seats' \in [Rooms -> SUBSET People]
    BY <1>1 DEF RoomInv, RoomTypeOK, OpenRooms
  <2>3. \A q \in Requests : run'[q].op \notin {"none", "found", "room"} => run'[q].who \in People
    BY <1>1, <1>2 DEF RoomInv, RoomTypeOK
  <2> QED
    BY <2>1, <2>2, <2>3
<1>4. Builders'
  BY <1>1, <1>2, BuildersKept DEF Building, AfterRooms
<1>5. \A a \in People : BeingRemoved(a) => BeingRemoved(a)'
  BY <1>1, <1>2 DEF BeingRemoved
<1>6. \A a \in hall : a \in hall' \/ BeingRemoved(a)'
  BY <1>1, <1>2 DEF BeingRemoved
<1>7. \A a \in People : r \in Working' /\ ToSeat(r, a)' => a \in hall' \/ (r \in Working /\ ToSeat(r, a))
  BY <1>1, <1>2 DEF ToSeat, Working, Seated, AfterRooms
<1>8. \A m \in Rooms : \A a \in seats'[m] : a \in seats[m] \/ a \in hall' \/ (r \in Working /\ ToSeat(r, a))
  BY <1>1, <1>2 DEF ToSeat, Working, RoomInv, RoomTypeOK
<1>9. \A a \in hall', m \in OpenRooms :
        a \notin hall \/ a \in seats[m] \/ a \in missed \/ YetToSeat(r, a, m)
          => a \in seats'[m] \/ a \in missed' \/ YetToSeat(r, a, m)'
  BY <1>1, <1>2 DEF YetToSeat, OpenRooms, RoomInv, RoomTypeOK, Builders, Building, Seated, AfterRooms
<1>10. Grounded' /\ RoomsWithin' /\ RoomsComplete'
  BY <1>1, <1>2, <1>3, <1>5, <1>6, <1>7, <1>8, <1>9, StepKeeps
<1> QED
  BY <1>1, <1>2, <1>3, <1>4, <1>10 DEF RoomInv, RoomTypeOK, Untouched

LEMMA ClearSeatKeeps ==
  ASSUME RoomInv, NEW r \in Requests, ClearSeat(r), reactions' \in [Rooms -> SUBSET (People \cup Rooms)]
  PROVE  RoomInv'
<1>1. /\ run[r].op = "revoke" /\ run[r].pc = "clear" /\ r \notin lost
      /\ seats' = [seats EXCEPT ![run[r].room] = @ \ {run[r].who}]
      /\ UNCHANGED <<community, hall, policy, crossed, missed, lost>>
  BY DEF ClearSeat, At, Goto
<1>2. /\ run' \in [Requests -> RunType]
      /\ run'[r].op = run[r].op
      /\ run'[r].pc = "sync"
      /\ run'[r].who = run[r].who
      /\ run'[r].room = run[r].room
      /\ run'[r].access = run[r].access
      /\ run'[r].todo = run[r].todo
      /\ \A q \in Requests : q # r => run'[q] = run[q]
  BY DEF ClearSeat, At, Goto, RoomInv, RoomTypeOK, RunType, Ops, Steps, AfterRooms, OpenRooms, Created, Seated
<1>3. /\ community /\ OpenRooms' = OpenRooms /\ hall' \subseteq People /\ seats' \in [Rooms -> SUBSET People]
      /\ \A q \in Requests : run'[q].op \notin {"none", "found", "room"} => run'[q].who \in People
  <2>1. community
    BY <1>1 DEF RoomInv, RoomTypeOK, Untouched, NotStarted
  <2>2. OpenRooms' = OpenRooms /\ hall' \subseteq People /\ seats' \in [Rooms -> SUBSET People]
    BY <1>1 DEF RoomInv, RoomTypeOK, OpenRooms
  <2>3. \A q \in Requests : run'[q].op \notin {"none", "found", "room"} => run'[q].who \in People
    BY <1>1, <1>2 DEF RoomInv, RoomTypeOK
  <2> QED
    BY <2>1, <2>2, <2>3
<1>4. Builders'
  BY <1>1, <1>2, BuildersKept DEF Building, AfterRooms
<1>5. \A a \in People : BeingRemoved(a) => BeingRemoved(a)'
  BY <1>1, <1>2 DEF BeingRemoved
<1>6. \A a \in hall : a \in hall' \/ BeingRemoved(a)'
  BY <1>1, <1>2 DEF BeingRemoved
<1>7. \A a \in People : r \in Working' /\ ToSeat(r, a)' => a \in hall' \/ (r \in Working /\ ToSeat(r, a))
  BY <1>1, <1>2 DEF ToSeat, Working, Seated, AfterRooms
<1>8. \A m \in Rooms : \A a \in seats'[m] : a \in seats[m] \/ a \in hall' \/ (r \in Working /\ ToSeat(r, a))
  BY <1>1, <1>2 DEF ToSeat, Working, RoomInv, RoomTypeOK
<1>9. \A a \in hall', m \in OpenRooms :
        a \notin hall \/ a \in seats[m] \/ a \in missed \/ YetToSeat(r, a, m)
          => a \in seats'[m] \/ a \in missed' \/ YetToSeat(r, a, m)'
  BY <1>1, <1>2 DEF YetToSeat, OpenRooms, RoomInv, RoomTypeOK, Builders, Building, Seated, AfterRooms
<1>10. Grounded' /\ RoomsWithin' /\ RoomsComplete'
  BY <1>1, <1>2, <1>3, <1>5, <1>6, <1>7, <1>8, <1>9, StepKeeps
<1> QED
  BY <1>1, <1>2, <1>3, <1>4, <1>10 DEF RoomInv, RoomTypeOK, Untouched

LEMMA LeaveHallKeeps ==
  ASSUME RoomInv, NEW r \in Requests, LeaveHall(r), reactions' \in [Rooms -> SUBSET (People \cup Rooms)]
  PROVE  RoomInv'
<1>1. /\ run[r].op = "remove" /\ run[r].pc = "hall" /\ r \notin lost
      /\ hall' = hall \ {run[r].who}
      /\ UNCHANGED <<community, policy, seats, crossed, missed, lost>>
  BY DEF LeaveHall, At, Goto
<1>2. /\ run' \in [Requests -> RunType]
      /\ run'[r].op = run[r].op
      /\ run'[r].pc = "affected"
      /\ run'[r].who = run[r].who
      /\ run'[r].room = run[r].room
      /\ run'[r].access = run[r].access
      /\ run'[r].todo = run[r].todo
      /\ \A q \in Requests : q # r => run'[q] = run[q]
  BY DEF LeaveHall, At, Goto, RoomInv, RoomTypeOK, RunType, Ops, Steps, AfterRooms, OpenRooms, Created, Seated
<1>3. /\ community /\ OpenRooms' = OpenRooms /\ hall' \subseteq People /\ seats' \in [Rooms -> SUBSET People]
      /\ \A q \in Requests : run'[q].op \notin {"none", "found", "room"} => run'[q].who \in People
  <2>1. community
    BY <1>1 DEF RoomInv, RoomTypeOK, Untouched, NotStarted
  <2>2. OpenRooms' = OpenRooms /\ hall' \subseteq People /\ seats' \in [Rooms -> SUBSET People]
    BY <1>1 DEF RoomInv, RoomTypeOK, OpenRooms
  <2>3. \A q \in Requests : run'[q].op \notin {"none", "found", "room"} => run'[q].who \in People
    BY <1>1, <1>2 DEF RoomInv, RoomTypeOK
  <2> QED
    BY <2>1, <2>2, <2>3
<1>4. Builders'
  BY <1>1, <1>2, BuildersKept DEF Building, AfterRooms
<1>5. \A a \in People : BeingRemoved(a) => BeingRemoved(a)'
  BY <1>1, <1>2 DEF BeingRemoved
<1>6. \A a \in hall : a \in hall' \/ BeingRemoved(a)'
  BY <1>1, <1>2 DEF BeingRemoved
<1>7. \A a \in People : r \in Working' /\ ToSeat(r, a)' => a \in hall' \/ (r \in Working /\ ToSeat(r, a))
  BY <1>1, <1>2 DEF ToSeat, Working, Seated, AfterRooms
<1>8. \A m \in Rooms : \A a \in seats'[m] : a \in seats[m] \/ a \in hall' \/ (r \in Working /\ ToSeat(r, a))
  BY <1>1, <1>2 DEF ToSeat, Working, RoomInv, RoomTypeOK
<1>9. \A a \in hall', m \in OpenRooms :
        a \notin hall \/ a \in seats[m] \/ a \in missed \/ YetToSeat(r, a, m)
          => a \in seats'[m] \/ a \in missed' \/ YetToSeat(r, a, m)'
  BY <1>1, <1>2 DEF YetToSeat, OpenRooms, RoomInv, RoomTypeOK, Builders, Building, Seated, AfterRooms
<1>10. Grounded' /\ RoomsWithin' /\ RoomsComplete'
  BY <1>1, <1>2, <1>3, <1>5, <1>6, <1>7, <1>8, <1>9, StepKeeps
<1> QED
  BY <1>1, <1>2, <1>3, <1>4, <1>10 DEF RoomInv, RoomTypeOK, Untouched

LEMMA ReadAffectedKeeps ==
  ASSUME RoomInv, NEW r \in Requests, ReadAffected(r), reactions' \in [Rooms -> SUBSET (People \cup Rooms)]
  PROVE  RoomInv'
<1>1. /\ run[r].op = "remove" /\ run[r].pc = "affected" /\ r \notin lost
      /\ UNCHANGED <<community, hall, policy, seats, crossed, missed, lost>>
  BY DEF ReadAffected, At, memberVars
<1>2. /\ run' \in [Requests -> RunType]
      /\ run'[r].op = run[r].op
      /\ run'[r].pc = "rooms"
      /\ run'[r].who = run[r].who
      /\ run'[r].room = run[r].room
      /\ run'[r].access = run[r].access
      /\ run'[r].todo = Created
      /\ \A q \in Requests : q # r => run'[q] = run[q]
  BY DEF ReadAffected, At, memberVars, RoomInv, RoomTypeOK, RunType, Ops, Steps, AfterRooms, OpenRooms, Created, Seated
<1>3. /\ community /\ OpenRooms' = OpenRooms /\ hall' \subseteq People /\ seats' \in [Rooms -> SUBSET People]
      /\ \A q \in Requests : run'[q].op \notin {"none", "found", "room"} => run'[q].who \in People
  <2>1. community
    BY <1>1 DEF RoomInv, RoomTypeOK, Untouched, NotStarted
  <2>2. OpenRooms' = OpenRooms /\ hall' \subseteq People /\ seats' \in [Rooms -> SUBSET People]
    BY <1>1 DEF RoomInv, RoomTypeOK, OpenRooms
  <2>3. \A q \in Requests : run'[q].op \notin {"none", "found", "room"} => run'[q].who \in People
    BY <1>1, <1>2 DEF RoomInv, RoomTypeOK
  <2> QED
    BY <2>1, <2>2, <2>3
<1>4. Builders'
  BY <1>1, <1>2, BuildersKept DEF Building, AfterRooms
<1>5. \A a \in People : BeingRemoved(a) => BeingRemoved(a)'
  BY <1>1, <1>2 DEF BeingRemoved
<1>6. \A a \in hall : a \in hall' \/ BeingRemoved(a)'
  BY <1>1, <1>2 DEF BeingRemoved
<1>7. \A a \in People : r \in Working' /\ ToSeat(r, a)' => a \in hall' \/ (r \in Working /\ ToSeat(r, a))
  BY <1>1, <1>2 DEF ToSeat, Working, Seated, AfterRooms
<1>8. \A m \in Rooms : \A a \in seats'[m] : a \in seats[m] \/ a \in hall' \/ (r \in Working /\ ToSeat(r, a))
  BY <1>1, <1>2 DEF ToSeat, Working, RoomInv, RoomTypeOK
<1>9. \A a \in hall', m \in OpenRooms :
        a \notin hall \/ a \in seats[m] \/ a \in missed \/ YetToSeat(r, a, m)
          => a \in seats'[m] \/ a \in missed' \/ YetToSeat(r, a, m)'
  BY <1>1, <1>2 DEF YetToSeat, OpenRooms, RoomInv, RoomTypeOK, Builders, Building, Seated, AfterRooms
<1>10. Grounded' /\ RoomsWithin' /\ RoomsComplete'
  BY <1>1, <1>2, <1>3, <1>5, <1>6, <1>7, <1>8, <1>9, StepKeeps
<1> QED
  BY <1>1, <1>2, <1>3, <1>4, <1>10 DEF RoomInv, RoomTypeOK, Untouched
-----------------------------------------------------------------------------
(* Runs that begin and end, and steps that concern neither members nor rooms. *)

\* The steps at which a run has nothing to do with seats.
Inert(w) == w.pc \in {"idle", "sync", "answer", "append", "cast", "write", "end"}

LEMMA InertKeeps ==
  ASSUME RoomInv, NEW r \in Requests, UNCHANGED <<memberVars, lost>>, community,
         run' \in [Requests -> RunType], \A q \in Requests : q # r => run'[q] = run[q],
         Inert(run[r]), Inert(run'[r]), run'[r].op \notin {"none", "found", "room"} => run'[r].who \in People,
         reactions' \in [Rooms -> SUBSET (People \cup Rooms)]
  PROVE  RoomInv'
<1>1. Builders'
  BY BuildersKept DEF Building, Inert, memberVars
<1>2. OpenRooms' = OpenRooms
  BY DEF OpenRooms, memberVars
<1>3. hall' \subseteq People /\ seats' \in [Rooms -> SUBSET People]
  BY DEF RoomInv, RoomTypeOK, memberVars
<1>4. \A a, m : ~ToSeat(r, a) /\ ~ToSeat(r, a)' /\ ~YetToSeat(r, a, m) /\ ~YetToSeat(r, a, m)'
  BY DEF Inert, ToSeat, YetToSeat
<1>5. \A a \in People : BeingRemoved(a) => BeingRemoved(a)'
  BY DEF Inert, BeingRemoved
<1>6. Grounded' /\ RoomsWithin' /\ RoomsComplete'
  BY <1>2, <1>3, <1>4, <1>5, StepKeeps DEF memberVars
<1>7. RoomTypeOK' /\ Untouched'
  BY <1>3 DEF RoomInv, RoomTypeOK, Untouched, memberVars
<1> QED
  BY <1>1, <1>6, <1>7 DEF RoomInv

LEMMA Starts ==
  ASSUME RoomInv, NEW r \in Requests, NEW op \in Ops, NEW pc \in Steps, NEW who \in People \cup {Nothing},
         NEW room \in Rooms \cup {Nothing}, NEW access \in {"none", "all_members", "restricted"},
         NEW todo \in SUBSET (People \cup Rooms), Begin(r, op, pc, who, room, access, todo)
  PROVE  /\ run' \in [Requests -> RunType] /\ lost' = lost /\ r \notin lost /\ run[r].pc = "idle"
         /\ run'[r] = [op |-> op, pc |-> pc, who |-> who, room |-> room, access |-> access, todo |-> todo]
         /\ \A q \in Requests : q # r => run'[q] = run[q]
  BY DEF Begin, RoomInv, RoomTypeOK, RunType

\* A run whose request has been answered.
LEMMA LeaveKeeps ==
  ASSUME RoomInv, NEW r \in Requests, UNCHANGED <<memberVars, lost, reactions>>, Leave(r), run[r].pc # "idle",
         Inert(run[r]) \/ (run[r].op = "accept" /\ run[r].pc = "role" /\ run[r].who \notin hall)
  PROVE  RoomInv'
<1>1. /\ run' \in [Requests -> RunType] /\ \A q \in Requests : q # r => run'[q] = run[q]
      /\ run'[r].op = "none" /\ run'[r].pc = "idle"
  BY DEF RoomInv, RoomTypeOK, RunType, Ops, Steps, Leave, NotStarted
<1>2. community
  BY DEF RoomInv, Untouched, NotStarted
<1>3. Builders'
  BY <1>1, BuildersKept DEF Building, memberVars
<1>4. OpenRooms' = OpenRooms
  BY DEF OpenRooms, memberVars
<1>5. hall' \subseteq People /\ seats' \in [Rooms -> SUBSET People]
  BY DEF RoomInv, RoomTypeOK, memberVars
<1>6. \A a, m : ~ToSeat(r, a)' /\ (YetToSeat(r, a, m) => a \notin hall)
  BY <1>1 DEF Inert, ToSeat, YetToSeat
<1>7. \A a \in People : BeingRemoved(a) => BeingRemoved(a)'
  BY <1>1 DEF Inert, BeingRemoved
<1>8. Grounded' /\ RoomsWithin' /\ RoomsComplete'
  BY <1>1, <1>4, <1>5, <1>6, <1>7, StepKeeps DEF memberVars
<1>9. RoomTypeOK' /\ Untouched'
  BY <1>1, <1>2, <1>5 DEF RoomInv, RoomTypeOK, Untouched, memberVars
<1> QED
  BY <1>3, <1>8, <1>9 DEF RoomInv

\* A run that begins with members and rooms as they are.
LEMMA BeginKeeps ==
  ASSUME RoomInv, NEW r \in Requests, NEW op \in {"accept", "grant", "revoke", "remove", "post", "react"},
         NEW pc \in {"role", "join", "seat", "clear", "hall", "append", "write"}, NEW who \in People, NEW room \in Rooms \cup {Nothing},
         NEW todo \in SUBSET (People \cup Rooms), Begin(r, op, pc, who, room, "none", todo),
         UNCHANGED <<memberVars, reactions>>, community,
         op = "grant" => who \in hall, pc = "seat" => op = "grant",
         pc = "clear" => room \in Rooms /\ policy[room] = "restricted"
  PROVE  RoomInv'
<1>1. /\ run' \in [Requests -> RunType] /\ lost' = lost /\ r \notin lost /\ run[r].pc = "idle"
      /\ run'[r] = [op |-> op, pc |-> pc, who |-> who, room |-> room, access |-> "none", todo |-> todo]
      /\ \A q \in Requests : q # r => run'[q] = run[q]
  <2>1. op \in Ops /\ pc \in Steps
    BY DEF Ops, Steps
  <2> QED
    BY <2>1, Starts
<1>2. run'[r].op = op /\ run'[r].pc = pc /\ run'[r].who = who /\ run'[r].room = room
  BY <1>1
<1>3. Builders'
  BY <1>1, <1>2, BuildersKept DEF Building, memberVars
<1>4. OpenRooms' = OpenRooms
  BY DEF OpenRooms, memberVars
<1>5. hall' \subseteq People /\ seats' \in [Rooms -> SUBSET People]
  BY DEF RoomInv, RoomTypeOK, memberVars
<1>6. \A a : ToSeat(r, a)' => a \in hall
  BY <1>2 DEF ToSeat
<1>7. \A a, m : ~YetToSeat(r, a, m)
  BY <1>1 DEF YetToSeat
<1>8. \A a \in People : BeingRemoved(a) => BeingRemoved(a)'
  BY <1>1 DEF BeingRemoved
<1>9. Grounded' /\ RoomsWithin' /\ RoomsComplete'
  BY <1>1, <1>4, <1>5, <1>6, <1>7, <1>8, StepKeeps DEF memberVars
<1>10. RoomTypeOK' /\ Untouched'
  BY <1>1, <1>2, <1>5 DEF RoomInv, RoomTypeOK, Untouched, memberVars
<1> QED
  BY <1>3, <1>9, <1>10 DEF RoomInv

\* A run that makes a room begins: nobody else makes that room.
LEMMA BuildKeeps ==
  ASSUME RoomInv, NEW r \in Requests, NEW op \in {"found", "room"}, NEW pc \in {"hall", "insert"}, NEW m \in Rooms,
         NEW access \in {"all_members", "restricted"}, NEW todo \in SUBSET People,
         Begin(r, op, pc, Nothing, m, access, todo), UNCHANGED <<hall, policy, seats, crossed, missed, reactions>>,
         community', policy[m] = "absent", \A q \in Requests : Building(q) => run[q].room # m,
         pc = "insert" => todo \subseteq hall
  PROVE  RoomInv'
<1>1. /\ run' \in [Requests -> RunType] /\ lost' = lost /\ r \notin lost /\ run[r].pc = "idle"
      /\ run'[r] = [op |-> op, pc |-> pc, who |-> Nothing, room |-> m, access |-> access, todo |-> todo]
      /\ \A q \in Requests : q # r => run'[q] = run[q]
  <2>1. op \in Ops /\ pc \in Steps
    BY DEF Ops, Steps
  <2> QED
    BY <2>1, Starts
<1>2. run'[r].op = op /\ run'[r].pc = pc /\ run'[r].room = m /\ run'[r].access = access /\ run'[r].todo = todo
  BY <1>1
<1>3. Builders'
  <2>1. \A q \in Requests : q # r => (Building(q)' <=> Building(q)) /\ run'[q] = run[q]
    BY <1>1 DEF Building
  <2> QED
    BY <1>2, <2>1 DEF RoomInv, Builders
<1>4. OpenRooms' = OpenRooms
  BY DEF OpenRooms
<1>5. hall' \subseteq People /\ seats' \in [Rooms -> SUBSET People]
  BY DEF RoomInv, RoomTypeOK
<1>6. \A a : ToSeat(r, a)' => a \in hall
  BY <1>2 DEF ToSeat
<1>7. \A a, k : ~YetToSeat(r, a, k)
  BY <1>1 DEF YetToSeat
<1>8. \A a \in People : BeingRemoved(a) => BeingRemoved(a)'
  BY <1>1 DEF BeingRemoved
<1>9. Grounded' /\ RoomsWithin' /\ RoomsComplete'
  BY <1>1, <1>4, <1>5, <1>6, <1>7, <1>8, StepKeeps
<1>10. RoomTypeOK' /\ Untouched'
  BY <1>1, <1>2, <1>5 DEF RoomInv, RoomTypeOK, Untouched
<1> QED
  BY <1>3, <1>9, <1>10 DEF RoomInv

LEMMA InsertRoomKeeps ==
  ASSUME RoomInv, NEW r \in Requests, InsertRoom(r), reactions' = reactions
  PROVE  RoomInv'
<1>1. /\ run[r].op \in {"found", "room"} /\ run[r].pc = "insert" /\ r \notin lost
      /\ policy' = [policy EXCEPT ![run[r].room] = run[r].access]
      /\ UNCHANGED <<community, hall, seats, crossed, missed, lost>>
  BY DEF InsertRoom, At
<1>2. /\ run' \in [Requests -> RunType] /\ run'[r].op = run[r].op /\ run'[r].pc = "read" /\ run'[r].room = run[r].room
      /\ run'[r].access = run[r].access /\ run'[r].todo = run[r].todo
      /\ \A q \in Requests : q # r => run'[q] = run[q]
  BY DEF InsertRoom, Goto, RoomInv, RoomTypeOK, RunType, Steps
<1>3. /\ run[r].room \in Rooms /\ run[r].access \in {"all_members", "restricted"} /\ policy[run[r].room] = "absent"
      /\ community
  BY <1>1 DEF RoomInv, Builders, Building, Untouched, NotStarted
<1>4. /\ policy'[run[r].room] = run[r].access
      /\ \A m \in Rooms : m # run[r].room => policy'[m] = policy[m]
      /\ policy' \in [Rooms -> {"absent", "none", "all_members", "restricted"}]
  BY <1>1, <1>3 DEF RoomInv, RoomTypeOK
<1>5. Builders'
  <2>1. \A q \in Requests : q # r => (Building(q)' <=> Building(q)) /\ run'[q] = run[q]
    BY <1>2 DEF Building
  <2>2. \A q \in Requests : q # r /\ Building(q) => run[q].room # run[r].room /\ run[q].room \in Rooms
    BY <1>1 DEF RoomInv, Builders, Building
  <2>3. \A q \in Requests : Building(q)' =>
          /\ run'[q].room \in Rooms /\ run'[q].access \in {"all_members", "restricted"}
          /\ policy'[run'[q].room] = IF run'[q].pc \in {"hall", "insert"} THEN "absent" ELSE run'[q].access
    BY <1>2, <1>3, <1>4, <2>1, <2>2 DEF RoomInv, Builders
  <2>4. \A p, q \in Requests : Building(p)' /\ Building(q)' /\ p # q => run'[p].room # run'[q].room
    BY <1>1, <1>2, <2>1, <2>2 DEF RoomInv, Builders, Building
  <2>5. \A q \in Requests :
          run'[q].op = "revoke" /\ run'[q].pc = "clear" => run'[q].room \in Rooms /\ policy'[run'[q].room] = "restricted"
    BY <1>1, <1>2, <1>3, <1>4 DEF RoomInv, Builders
  <2> QED
    BY <2>3, <2>4, <2>5 DEF Builders
<1>6. \A m \in OpenRooms' : m \in OpenRooms \/ \A a \in People : YetToSeat(r, a, m)'
  BY <1>1, <1>2, <1>4 DEF OpenRooms, YetToSeat
<1>7. \A a : ToSeat(r, a)' => ToSeat(r, a)
  BY <1>1, <1>2 DEF ToSeat
<1>8. \A a, m : ~YetToSeat(r, a, m)
  BY <1>1 DEF YetToSeat
<1>9. \A a \in People : BeingRemoved(a) => BeingRemoved(a)'
  BY <1>1, <1>2 DEF BeingRemoved
<1>10. r \in Working
  BY <1>1 DEF Working
<1>11. hall' \subseteq People /\ \A m \in Rooms : seats'[m] \subseteq People
  BY <1>1 DEF RoomInv, RoomTypeOK
<1>12. Grounded' /\ RoomsWithin' /\ RoomsComplete'
  BY <1>1, <1>2, <1>6, <1>7, <1>8, <1>9, <1>10, <1>11, StepKeeps
<1>13. RoomTypeOK' /\ Untouched'
  BY <1>1, <1>2, <1>3, <1>4 DEF RoomInv, RoomTypeOK, Untouched
<1> QED
  BY <1>5, <1>12, <1>13 DEF RoomInv

\* The seats of a removed account are cleared at once; a run that had read that it is
\* a member leaves its mark.
LEMMA LeaveRoomsKeeps ==
  ASSUME RoomInv, NEW r \in Requests, LeaveRooms(r), reactions' = reactions
  PROVE  RoomInv'
<1> DEFINE a == run[r].who
<1>1. /\ run[r].op = "remove" /\ run[r].pc = "rooms" /\ r \notin lost
      /\ seats' = [m \in Rooms |-> seats[m] \ {a}]
      /\ crossed' = IF \E q \in Working : ToSeat(q, a) THEN crossed \cup {a} ELSE crossed \ {a}
      /\ missed' = IF a \in hall THEN missed \cup {a} ELSE missed
      /\ UNCHANGED <<community, hall, policy, lost>>
  BY DEF LeaveRooms, At, Cleared
<1>2. /\ run' \in [Requests -> RunType] /\ run'[r].pc \in {"idle", "sync"}
      /\ run'[r].op \in {"none", "remove"} /\ (run'[r].op = "remove" => run'[r].who = a)
      /\ \A q \in Requests : q # r => run'[q] = run[q]
  <2>1. CASE run[r].todo = {}
    BY <2>1 DEF LeaveRooms, Leave, NotStarted, RoomInv, RoomTypeOK, RunType, Ops, Steps
  <2>2. CASE run[r].todo # {}
    BY <1>1, <2>2 DEF LeaveRooms, Goto, RoomInv, RoomTypeOK, RunType, Ops, Steps
  <2> QED
    BY <2>1, <2>2
<1>3. community /\ a \in People
  BY <1>1 DEF RoomInv, Untouched, NotStarted, RoomTypeOK
<1>4. Builders'
  BY <1>1, <1>2, BuildersKept DEF Building
<1>5. \A q \in Requests : q # r => \A b, m : /\ ToSeat(q, b)' <=> ToSeat(q, b)
                                             /\ YetToSeat(q, b, m)' <=> YetToSeat(q, b, m)
                                             /\ q \in Working' <=> q \in Working
  BY <1>1, <1>2 DEF ToSeat, YetToSeat, Working
<1>6. \A b, m : ~ToSeat(r, b)' /\ ~YetToSeat(r, b, m)
  BY <1>1, <1>2 DEF ToSeat, YetToSeat
<1>7. \A b \in People : b # a /\ BeingRemoved(b) => BeingRemoved(b)'
  BY <1>1, <1>2 DEF BeingRemoved
<1>8. Grounded'
  <2> SUFFICES ASSUME NEW q \in Working', NEW b \in People, ToSeat(q, b)'
               PROVE  b \in hall' \/ BeingRemoved(b)' \/ b \in crossed'
    BY DEF Grounded
  <2>1. q \in Working /\ ToSeat(q, b)
    BY <1>5, <1>6 DEF Working
  <2>2. CASE b = a
    BY <1>1, <2>1, <2>2
  <2>3. CASE b # a
    BY <1>1, <1>7, <2>1, <2>3 DEF RoomInv, Grounded
  <2> QED
    BY <2>2, <2>3
<1>9. RoomsWithin'
  <2> SUFFICES ASSUME NEW m \in Rooms, NEW b \in seats'[m], b \notin hall'
               PROVE  BeingRemoved(b)' \/ b \in crossed'
    BY DEF RoomsWithin
  <2>1. b # a /\ b \in seats[m] \ hall /\ b \in People
    BY <1>1 DEF RoomInv, RoomTypeOK
  <2>2. BeingRemoved(b) \/ b \in crossed
    BY <2>1 DEF RoomInv, RoomsWithin
  <2> QED
    BY <1>1, <1>7, <2>1, <2>2
<1>10. RoomsComplete'
  <2> SUFFICES ASSUME NEW b \in hall', NEW m \in OpenRooms'
               PROVE  b \in seats'[m] \/ b \in missed' \/ \E q \in Requests : YetToSeat(q, b, m)'
    BY DEF RoomsComplete
  <2>1. b \in hall /\ m \in OpenRooms /\ m \in Rooms
    BY <1>1 DEF OpenRooms
  <2>2. CASE b = a
    BY <1>1, <2>1, <2>2
  <2>3. CASE b # a
    <3>1. b \in seats[m] \/ b \in missed \/ \E q \in Requests : q # r /\ YetToSeat(q, b, m)
      BY <1>6, <2>1 DEF RoomInv, RoomsComplete
    <3> QED
      BY <1>1, <1>5, <2>1, <2>3, <3>1
  <2> QED
    BY <2>2, <2>3
<1>11. RoomTypeOK' /\ Untouched'
  BY <1>1, <1>2, <1>3 DEF RoomInv, RoomTypeOK, Untouched
<1> QED
  BY <1>4, <1>8, <1>9, <1>10, <1>11 DEF RoomInv

LEMMA LoseKeeps ==
  ASSUME RoomInv, NEW r \in Requests, LoseRun(r), reactions' = reactions
  PROVE  RoomInv'
<1>1. UNCHANGED <<memberVars, run>> /\ Working' \subseteq Working
  BY DEF LoseRun, Working
<1>2. RoomTypeOK' /\ Untouched' /\ Builders'
  BY <1>1 DEF memberVars, RoomInv, RoomTypeOK, Untouched, Builders, Building
<1>3. Grounded' /\ RoomsWithin'
  BY <1>1 DEF memberVars, RoomInv, Grounded, RoomsWithin, BeingRemoved, ToSeat
<1>4. RoomsComplete'
  BY <1>1 DEF memberVars, RoomInv, RoomsComplete, YetToSeat, OpenRooms
<1> QED
  BY <1>2, <1>3, <1>4 DEF RoomInv

-----------------------------------------------------------------------------
\* The steps of RoomChannel that are no change of membership.
LEMMA ChannelKeeps ==
  ASSUME RoomInv, ChannelStep
  PROVE  RoomInv'
<1>1. CASE UNCHANGED <<communityVars, reactions>>
  BY <1>1 DEF communityVars, memberVars, RoomInv, RoomTypeOK, Untouched, Builders, Building, Grounded, ToSeat, BeingRemoved,
     RoomsWithin, RoomsComplete, YetToSeat, OpenRooms, Working
<1>2. ASSUME NEW r \in Requests, NEW m \in Rooms, SyncRoom(r, m) PROVE RoomInv'
  <2> DEFINE pc == IF run[r].todo = {m} THEN "answer" ELSE run[r].pc
             todo == run[r].todo \ {m}
             w == [run[r] EXCEPT !.todo = todo, !.pc = pc]
  <2>1. /\ r \in Working /\ run[r].pc = "sync" /\ UNCHANGED <<memberVars, lost, reactions>>
        /\ run' = [run EXCEPT ![r].todo = @ \ {m}, ![r].pc = IF run[r].todo = {m} THEN "answer" ELSE @]
    BY <1>2 DEF SyncRoom, reactionVars
  <2>2. /\ run[r] \in RunType /\ pc \in Steps /\ todo \in SUBSET (People \cup Rooms) /\ pc \in {"sync", "answer"}
        /\ run \in [Requests -> RunType]
    BY <2>1 DEF RoomInv, RoomTypeOK, RunType, Steps
  <2>3. run' = [run EXCEPT ![r] = w]
    BY <2>1, <2>2 DEF RunType
  <2> HIDE DEF pc, todo
  <2>4. w \in RunType /\ w.op = run[r].op /\ w.pc = pc /\ w.who = run[r].who
    BY <2>2 DEF RunType
  <2>5. run' \in [Requests -> RunType] /\ run'[r] = w /\ \A q \in Requests : q # r => run'[q] = run[q]
    BY <2>2, <2>3, <2>4
  <2>6. community
    BY <2>1 DEF RoomInv, Untouched, NotStarted
  <2>7. Inert(run[r]) /\ Inert(run'[r])
    BY <2>1, <2>2, <2>4, <2>5 DEF Inert
  <2>8. run'[r].op \notin {"none", "found", "room"} => run'[r].who \in People
    BY <2>4, <2>5 DEF RoomInv, RoomTypeOK
  <2>9. reactions' \in [Rooms -> SUBSET (People \cup Rooms)]
    BY <2>1 DEF RoomInv, RoomTypeOK
  <2> QED
    BY <2>1, <2>5, <2>6, <2>7, <2>8, <2>9, InertKeeps
<1>3. ASSUME NEW r \in Requests, NEW pc \in {"cast", "answer"}, Goto(r, pc), Inert(run[r]), run[r].pc # "idle",
             UNCHANGED <<memberVars, lost, reactions>>
      PROVE  RoomInv'
  <2>1. /\ run' \in [Requests -> RunType] /\ run'[r].op = run[r].op /\ run'[r].pc = pc /\ run'[r].who = run[r].who
        /\ \A q \in Requests : q # r => run'[q] = run[q]
    BY <1>3 DEF Goto, RoomInv, RoomTypeOK, RunType, Steps
  <2>2. community
    BY <1>3 DEF RoomInv, Untouched, NotStarted
  <2>3. Inert(run'[r])
    BY <2>1 DEF Inert
  <2>4. run'[r].op \notin {"none", "found", "room"} => run'[r].who \in People
    BY <2>1 DEF RoomInv, RoomTypeOK
  <2>5. reactions' \in [Rooms -> SUBSET (People \cup Rooms)]
    BY <1>3 DEF RoomInv, RoomTypeOK
  <2> QED
    BY <1>3, <2>1, <2>2, <2>3, <2>4, <2>5, InertKeeps
<1>4. ASSUME NEW r \in Requests, AppendMessage(r) PROVE RoomInv'
  <2>1. /\ Goto(r, "cast") /\ run[r].pc = "append" /\ UNCHANGED <<memberVars, lost, reactions>>
    BY <1>4 DEF AppendMessage, At, reactionVars
  <2> QED
    BY <1>3, <2>1 DEF Inert
<1>5. ASSUME NEW r \in Requests, Broadcast(r) PROVE RoomInv'
  <2>1. /\ Goto(r, "answer") /\ run[r].pc = "cast" /\ UNCHANGED <<memberVars, lost, reactions>>
    BY <1>5 DEF Broadcast, At, reactionVars
  <2> QED
    BY <1>3, <2>1 DEF Inert
<1>6. ASSUME NEW r \in Requests, AnswerChange(r) PROVE RoomInv'
  <2>1. /\ Leave(r) /\ run[r].pc = "answer" /\ UNCHANGED <<memberVars, lost, reactions>>
    BY <1>6 DEF AnswerChange, reactionVars
  <2> QED
    BY <2>1, LeaveKeeps DEF Inert
<1>7. ASSUME NEW r \in Requests, NEW m \in Rooms, NEW a \in People, BeginPost(r, a, m) PROVE RoomInv'
  <2>1. Begin(r, "post", "append", a, m, "none", {}) /\ UNCHANGED <<memberVars, reactions>> /\ a \in seats[m]
    BY <1>7 DEF BeginPost, reactionVars
  <2>2. community
    BY <2>1 DEF RoomInv, Untouched
  <2> QED
    BY <2>1, <2>2, BeginKeeps
<1>8. ASSUME NEW r \in Requests, NEW m \in Rooms, NEW a \in People, BeginReact(r, a, m) PROVE RoomInv'
  <2>1. Begin(r, "react", "write", a, m, "none", reactions[m]) /\ UNCHANGED <<memberVars, reactions>> /\ a \in seats[m]
    BY <1>8 DEF BeginReact
  <2>2. community
    BY <2>1 DEF RoomInv, Untouched
  <2>3. reactions[m] \in SUBSET (People \cup Rooms)
    BY DEF RoomInv, RoomTypeOK
  <2> QED
    BY <2>1, <2>2, <2>3, BeginKeeps
<1>9. ASSUME NEW r \in Requests, WriteReactions(r) PROVE RoomInv'
  <2>1. /\ run[r].op = "react" /\ run[r].pc = "write" /\ UNCHANGED <<memberVars, lost>>
        /\ reactions' = [reactions EXCEPT ![run[r].room] = NextReactions(r)]
        /\ run' = [run EXCEPT ![r].pc = "cast", ![r].todo = {}]
    BY <1>9 DEF WriteReactions, At
  <2>2. /\ run' \in [Requests -> RunType] /\ run'[r].op = run[r].op /\ run'[r].pc = "cast" /\ run'[r].who = run[r].who
        /\ \A q \in Requests : q # r => run'[q] = run[q]
    <3> DEFINE w == [run[r] EXCEPT !.pc = "cast", !.todo = {}]
    <3>1. run \in [Requests -> RunType] /\ run[r] \in RunType
      BY DEF RoomInv, RoomTypeOK
    <3>2. w \in RunType /\ w.op = run[r].op /\ w.pc = "cast" /\ w.who = run[r].who
      BY <3>1 DEF RunType, Steps
    <3>3. run' = [run EXCEPT ![r] = w]
      BY <2>1, <3>1 DEF RunType
    <3> HIDE DEF w
    <3> QED
      BY <3>1, <3>2, <3>3
  <2>3. community
    BY <2>1 DEF RoomInv, Untouched, NotStarted
  <2>4. NextReactions(r) \subseteq People \cup Rooms
    <3>1. run[r].who \in People /\ run[r].todo \subseteq People \cup Rooms
      BY <2>1 DEF RoomInv, RoomTypeOK, RunType
    <3> QED
      BY <3>1 DEF NextReactions, Toggle
  <2>5. reactions' \in [Rooms -> SUBSET (People \cup Rooms)]
    BY <2>1, <2>4 DEF RoomInv, RoomTypeOK
  <2>6. run'[r].op \notin {"none", "found", "room"} => run'[r].who \in People
    BY <2>2 DEF RoomInv, RoomTypeOK
  <2>7. Inert(run[r]) /\ Inert(run'[r])
    BY <2>1, <2>2 DEF Inert
  <2> QED
    BY <2>1, <2>2, <2>3, <2>5, <2>6, <2>7, InertKeeps
<1>10. (\E s \in Sockets : \/ \E a \in People, m \in Rooms : Connect(s, a, m)
                          \/ AcceptSocket(s) \/ Disconnect(s) \/ EndSession(s)
                          \/ \E c \in Casts : AskSocket(c, s))
       \/ (\E c \in Casts : TellSocket(c) \/ EndCast(c))
         => UNCHANGED <<communityVars, reactions>>
  BY DEF Connect, AcceptSocket, Disconnect, EndSession, AskSocket, TellSocket, EndCast, reactionVars
<1> QED
  BY <1>1, <1>2, <1>4, <1>5, <1>6, <1>7, <1>8, <1>9, <1>10 DEF ChannelStep

LEMMA CommunityKeeps ==
  ASSUME RoomInv, NEW r \in Requests, CommunityStep(r), reactions' = reactions
  PROVE  RoomInv'
<1>1. reactions' \in [Rooms -> SUBSET (People \cup Rooms)]
  BY DEF RoomInv, RoomTypeOK
<1>2. ASSUME NEW m \in Rooms, NEW others \in SUBSET (People \ {Owner}), BeginFound(r, m, others) PROVE RoomInv'
  <2>1. /\ ~community /\ community' /\ Begin(r, "found", "hall", Nothing, m, "all_members", others \cup {Owner})
        /\ UNCHANGED <<hall, policy, seats, crossed, missed>>
    BY <1>2 DEF BeginFound
  <2>2. policy[m] = "absent" /\ \A q \in Requests : ~Building(q)
    BY <2>1 DEF RoomInv, Untouched, NotStarted, Building
  <2>3. others \cup {Owner} \in SUBSET People
    BY CommunityAssumption
  <2> QED
    BY <2>1, <2>2, <2>3, BuildKeeps
<1>3. ASSUME NEW m \in Rooms, NEW named \in SUBSET People, NEW access \in {"all_members", "restricted"},
             BeginRoom(r, m, access, named)
      PROVE  RoomInv'
  <2>1. /\ Begin(r, "room", "insert", Nothing, m, access, Chosen(access, named)) /\ UNCHANGED memberVars
        /\ policy[m] = "absent" /\ \A q \in Requests : run[q].room # m
        /\ Owner \in hall /\ named \subseteq hall
    BY <1>3 DEF BeginRoom
  <2>2. community
    BY <2>1 DEF RoomInv, Untouched
  <2>3. Chosen(access, named) \in SUBSET People /\ Chosen(access, named) \subseteq hall
    BY <2>1 DEF Chosen
  <2> QED
    BY <2>1, <2>2, <2>3, BuildKeeps DEF memberVars
<1>4. ASSUME NEW a \in People, NEW m \in Rooms \cup {Nothing}, BeginAccept(r, a, m) PROVE RoomInv'
  <2>1. PICK pc \in {"role", "join"} : Begin(r, "accept", pc, a, m, "none", {}) /\ UNCHANGED memberVars /\ community
    BY <1>4 DEF BeginAccept
  <2> QED
    BY <2>1, BeginKeeps
<1>5. ASSUME NEW a \in People, NEW m \in Rooms, BeginGrant(r, a, m) PROVE RoomInv'
  <2>1. /\ Begin(r, "grant", "seat", a, m, "none", {m}) /\ UNCHANGED memberVars /\ Owner \in hall /\ a \in hall
    BY <1>5 DEF BeginGrant, Grantable
  <2>2. community
    BY <2>1 DEF RoomInv, Untouched
  <2> QED
    BY <2>1, <2>2, BeginKeeps
<1>6. ASSUME NEW a \in People, NEW m \in Rooms, BeginRevoke(r, a, m) PROVE RoomInv'
  <2>1. /\ Begin(r, "revoke", "clear", a, m, "none", {m}) /\ UNCHANGED memberVars /\ Owner \in hall
        /\ policy[m] = "restricted"
    BY <1>6 DEF BeginRevoke
  <2>2. community
    BY <2>1 DEF RoomInv, Untouched
  <2> QED
    BY <2>1, <2>2, BeginKeeps
<1>7. ASSUME NEW a \in People, BeginRemove(r, a) PROVE RoomInv'
  <2>1. /\ Begin(r, "remove", "hall", a, Nothing, "none", {}) /\ UNCHANGED memberVars /\ Owner \in hall
    BY <1>7 DEF BeginRemove
  <2>2. community
    BY <2>1 DEF RoomInv, Untouched
  <2> QED
    BY <2>1, <2>2, BeginKeeps
<1>8. ASSUME ReadRole(r) PROVE RoomInv'
  <2>1. CASE run[r].who \in hall
    BY <1>1, <1>8, <2>1, ReadRoleKeeps
  <2>2. CASE run[r].who \notin hall
    <3>1. Leave(r) /\ run[r].op = "accept" /\ run[r].pc = "role" /\ UNCHANGED <<memberVars, lost>>
      BY <1>8, <2>2 DEF ReadRole, At
    <3> QED
      BY <2>2, <3>1, LeaveKeeps
  <2> QED
    BY <2>1, <2>2
<1>9. ASSUME AnswerAccept(r) PROVE RoomInv'
  <2>1. Leave(r) /\ run[r].pc = "end" /\ UNCHANGED <<memberVars, lost>>
    BY <1>9 DEF AnswerAccept, At
  <2> QED
    BY <2>1, LeaveKeeps DEF Inert
<1>10. ASSUME NEW m \in Rooms, EnterRoom(r, m) PROVE RoomInv'
  BY <1>1, <1>10, EnterRoomKeeps
<1>11. ASSUME NEW a \in People, LetIn(r, a) \/ SeatMember(r, a) PROVE RoomInv'
  BY <1>1, <1>11, LetInKeeps, SeatMemberKeeps
<1>12. ASSUME ReadHall(r) \/ JoinHall(r) \/ ListRooms(r) \/ ReadTarget(r) \/ EnterTarget(r) PROVE RoomInv'
  BY <1>1, <1>12, ReadHallKeeps, JoinHallKeeps, ListRoomsKeeps, ReadTargetKeeps, EnterTargetKeeps
<1>13. ASSUME SeatGranted(r) \/ ClearSeat(r) \/ LeaveHall(r) \/ ReadAffected(r) PROVE RoomInv'
  BY <1>1, <1>13, SeatGrantedKeeps, ClearSeatKeeps, LeaveHallKeeps, ReadAffectedKeeps
<1>14. ASSUME InsertRoom(r) \/ LeaveRooms(r) \/ LoseRun(r) PROVE RoomInv'
  BY <1>14, InsertRoomKeeps, LeaveRoomsKeeps, LoseKeeps
<1> QED
  BY <1>2, <1>3, <1>4, <1>5, <1>6, <1>7, <1>8, <1>9, <1>10, <1>11, <1>12, <1>13, <1>14 DEF CommunityStep

LEMMA RoomsFollowStep == RoomInv /\ [RoomNext]_roomVars => RoomInv'
<1> SUFFICES ASSUME RoomInv, [RoomNext]_roomVars PROVE RoomInv'
  OBVIOUS
<1>1. CASE UNCHANGED roomVars
  BY <1>1 DEF roomVars, reactionVars, communityVars, memberVars, RoomInv, RoomTypeOK, Untouched, Builders, Building, Grounded,
     ToSeat, BeingRemoved, RoomsWithin, RoomsComplete, YetToSeat, OpenRooms, Working
<1>2. ASSUME NEW r \in Requests, ChangeMembers(r) PROVE RoomInv'
  <2>1. CommunityStep(r) /\ reactions' = reactions
    BY <1>2 DEF ChangeMembers, reactionVars
  <2> QED
    BY <2>1, CommunityKeeps
<1> QED
  BY <1>1, <1>2, ChannelKeeps DEF RoomNext

\* However joining, founding, granting, revoking and removal interleave or are cut
\* short, and whatever is said in the rooms meanwhile: nobody has a seat who is not in
\* the community, and no member lacks one in a room for all, but for the named races.
THEOREM RoomsFollow == RoomSpec => []RoomsAgree
<1>1. RoomInv => RoomsAgree
  BY DEF RoomInv, RoomsAgree
<1> QED
  BY RoomStart, RoomsFollowStep, <1>1, PTL DEF RoomSpec

-----------------------------------------------------------------------------
(* What the sockets hear, and what reactions are told.                      *)

SocketType == [who : People \cup {Nothing}, room : Rooms \cup {Nothing},
               state : {"none", "opening", "open", "closed"}]
CastType == [kind : {"none", "payload", "sweep"}, room : Rooms \cup {Nothing}, by : Requests \cup {Nothing},
             todo : SUBSET Sockets, asked : Sockets \cup {Nothing}, access : BOOLEAN,
             reached : SUBSET Sockets, eligible : SUBSET Sockets]

ChannelTypeOK ==
  /\ socket \in [Sockets -> SocketType] /\ cast \in [Casts -> CastType]
  /\ toggled \in [Rooms -> SUBSET (People \cup Rooms)] /\ blurred \in [Rooms -> SUBSET (People \cup Rooms)]

\* A broadcast works on sockets of its room; it has sent to sockets that had access since
\* it began, and is about to send to one of them.
CastSound(c) ==
  LET q == cast[c] IN
  /\ q.kind = "none" => q = NoCast
  /\ \A s \in Sockets : s \in q.todo \/ s = q.asked => socket[s].room = q.room /\ socket[s].state \in {"open", "closed"}
  /\ q.asked # Nothing /\ q.access => q.asked \in q.eligible
  /\ q.reached \subseteq q.eligible
  /\ q.by # Nothing => run[q.by].pc \in {"sync", "answer"}

\* r took the seat of the account of s away, and s is yet to be asked about, or was
\* asked about and is to be closed.
Sweeps(r, s) ==
  /\ run[r].who = socket[s].who
  /\ \/ run[r].op \in {"remove", "revoke"} /\ run[r].pc = "sync" /\ socket[s].room \in run[r].todo
     \/ \E c \in CastsOf(r) : s \in cast[c].todo \/ (s = cast[c].asked /\ ~cast[c].access)
Swept == \A s \in Sockets : socket[s].state = "open" /\ ~HasSeat(s) => s \in late \/ \E r \in Requests : Sweeps(r, s)
Clears == \A r \in Requests : run[r].op = "revoke" /\ run[r].pc = "clear" => run[r].todo = {run[r].room}

\* A toggle under way has read what the row says of every account, but for the
\* accounts of toggles that overlap, and these are known.
Writing(r) == At(r, "react", "write")
TogglesSound ==
  /\ \A r \in Requests : Writing(r) =>
       /\ run[r].room \in Rooms
       /\ \A a \in People \ blurred[run[r].room] : a \in run[r].todo <=> a \in reactions[run[r].room]
  /\ \A q, r \in Requests : Writing(q) /\ Writing(r) /\ q # r /\ run[q].room = run[r].room
                              => run[q].who \in blurred[run[r].room]

ChannelInv == ChannelTypeOK /\ (\A c \in Casts : CastSound(c)) /\ Swept /\ Clears /\ TogglesSound /\ ReactionsAgree

LEMMA ChannelStart == RoomInit => ChannelInv
<1> SUFFICES ASSUME RoomInit PROVE ChannelInv
  OBVIOUS
<1>1. /\ run = [r \in Requests |-> NotStarted] /\ socket = [s \in Sockets |-> NoSocket]
      /\ cast = [c \in Casts |-> NoCast] /\ reactions = [m \in Rooms |-> {}]
      /\ toggled = [m \in Rooms |-> {}] /\ blurred = [m \in Rooms |-> {}]
  BY DEF RoomInit, Init, ChannelInit
<1>2. ChannelTypeOK
  BY <1>1 DEF ChannelTypeOK, SocketType, CastType, NoSocket, NoCast
<1>3. \A c \in Casts : CastSound(c)
  BY <1>1, ChannelAssumption DEF CastSound, NoCast
<1>4. Swept /\ Clears /\ TogglesSound /\ ReactionsAgree
  BY <1>1 DEF Swept, Clears, TogglesSound, ReactionsAgree, NoSocket, NotStarted, Writing, At
<1> QED
  BY <1>2, <1>3, <1>4 DEF ChannelInv

\* What a step leaves of the casts it goes on with.
LEMMA Followed ==
  ASSUME NEW D \in [Casts -> CastType], Follow(D), socket \in [Sockets -> SocketType]
  PROVE  /\ cast' \in [Casts -> CastType]
         /\ \A c \in Casts : D[c].kind = "none" => cast'[c] = NoCast
         /\ \A c \in Casts : D[c].kind # "none" =>
              /\ cast'[c].kind = D[c].kind /\ cast'[c].room = D[c].room /\ cast'[c].by = D[c].by
              /\ cast'[c].todo = D[c].todo /\ cast'[c].asked = D[c].asked /\ cast'[c].access = D[c].access
              /\ cast'[c].reached = D[c].reached /\ D[c].eligible \subseteq cast'[c].eligible
              /\ \A s \in Sockets : socket[s].room = D[c].room /\ HasAccess(s)' => s \in cast'[c].eligible
<1> DEFINE E(c) == D[c].eligible \cup {s \in Sockets : socket[s].room = D[c].room /\ HasAccess(s)'}
<1>1. cast' = [c \in Casts |-> IF D[c].kind = "none" THEN NoCast ELSE [D[c] EXCEPT !.eligible = E(c)]]
  BY DEF Follow
<1>2. NoCast \in CastType
  BY DEF NoCast, CastType
<1>3. ASSUME NEW c \in Casts
      PROVE  LET w == [D[c] EXCEPT !.eligible = E(c)] IN
             /\ w \in CastType /\ w.kind = D[c].kind /\ w.room = D[c].room /\ w.by = D[c].by
             /\ w.todo = D[c].todo /\ w.asked = D[c].asked /\ w.access = D[c].access
             /\ w.reached = D[c].reached /\ w.eligible = E(c)
  <2>1. D[c] \in CastType /\ E(c) \in SUBSET Sockets
    BY DEF CastType
  <2> HIDE DEF E
  <2> QED
    BY <2>1 DEF CastType
<1>4. \A c \in Casts : D[c].eligible \subseteq E(c) /\ \A s \in Sockets : socket[s].room = D[c].room /\ HasAccess(s)' => s \in E(c)
  OBVIOUS
<1> HIDE DEF E
<1> QED
  BY <1>1, <1>2, <1>3, <1>4

\* A step that starts, answers and ends no broadcast, and leaves the runs alone that have
\* one under way or are to start one.
LEMMA QuietCasts ==
  ASSUME ChannelInv, Follow(cast),
         \A r \in Requests : run[r].pc = "sync" \/ CastsOf(r) # {} => run'[r] = run[r],
         \A s \in Sockets : socket[s].state \in {"open", "closed"} =>
           socket'[s].room = socket[s].room /\ socket'[s].who = socket[s].who /\ socket'[s].state \in {"open", "closed"}
  PROVE  /\ cast' \in [Casts -> CastType] /\ \A c \in Casts : CastSound(c)'
         /\ \A s \in Sockets : socket[s].state = "open" => \A q \in Requests : Sweeps(q, s) => Sweeps(q, s)'
<1>1. cast \in [Casts -> CastType] /\ socket \in [Sockets -> SocketType] /\ \A c \in Casts : CastSound(c)
  BY DEF ChannelInv, ChannelTypeOK
<1>2. /\ cast' \in [Casts -> CastType]
      /\ \A c \in Casts : cast[c].kind = "none" => cast'[c] = NoCast
      /\ \A c \in Casts : cast[c].kind # "none" =>
           /\ cast'[c].kind = cast[c].kind /\ cast'[c].room = cast[c].room /\ cast'[c].by = cast[c].by
           /\ cast'[c].todo = cast[c].todo /\ cast'[c].asked = cast[c].asked /\ cast'[c].access = cast[c].access
           /\ cast'[c].reached = cast[c].reached /\ cast[c].eligible \subseteq cast'[c].eligible
  BY <1>1, Followed
<1>3. \A c \in Casts : /\ cast'[c].by = cast[c].by /\ cast'[c].todo = cast[c].todo
                       /\ cast'[c].asked = cast[c].asked /\ cast'[c].access = cast[c].access
  BY <1>1, <1>2 DEF CastSound, NoCast
<1>4. ASSUME NEW c \in Casts PROVE CastSound(c)'
  <2>1. CASE cast[c].kind = "none"
    BY <1>2, <2>1, ChannelAssumption DEF CastSound, NoCast
  <2>2. CASE cast[c].kind # "none"
    <3>1. cast'[c].by # Nothing => run'[cast'[c].by].pc \in {"sync", "answer"}
      <4>1. cast[c].by # Nothing => cast[c].by \in Requests /\ CastsOf(cast[c].by) # {}
        BY <1>1 DEF CastType, CastsOf
      <4> QED
        BY <1>1, <1>3, <4>1 DEF CastSound
    <3>2. \A s \in Sockets : s \in cast'[c].todo \/ s = cast'[c].asked
            => socket'[s].room = cast'[c].room /\ socket'[s].state \in {"open", "closed"}
      BY <1>1, <1>2, <2>2 DEF CastSound
    <3>3. /\ cast'[c].asked # Nothing /\ cast'[c].access => cast'[c].asked \in cast'[c].eligible
          /\ cast'[c].reached \subseteq cast'[c].eligible
      BY <1>1, <1>2, <2>2 DEF CastSound
    <3> QED
      BY <1>2, <2>2, <3>1, <3>2, <3>3 DEF CastSound
  <2> QED
    BY <2>1, <2>2
<1>5. ASSUME NEW s \in Sockets, socket[s].state = "open", NEW q \in Requests, Sweeps(q, s) PROVE Sweeps(q, s)'
  <2>1. run'[q] = run[q] /\ socket'[s].room = socket[s].room /\ socket'[s].who = socket[s].who
    BY <1>5 DEF Sweeps
  <2>2. CastsOf(q)' = CastsOf(q)
    BY <1>3 DEF CastsOf
  <2>3. \A c \in CastsOf(q) : c \in Casts
    BY DEF CastsOf
  <2> QED
    BY <1>3, <1>5, <2>1, <2>2, <2>3 DEF Sweeps
<1> QED
  BY <1>2, <1>4, <1>5

LEMMA TogglesKept ==
  ASSUME ChannelInv, UNCHANGED reactionVars,
         \A q \in Requests : Writing(q)' => Writing(q) /\ run'[q] = run[q]
  PROVE  TogglesSound' /\ ReactionsAgree'
BY DEF ChannelInv, reactionVars, TogglesSound, ReactionsAgree

LEMMA SocketKeeps ==
  ASSUME ChannelInv, NEW s \in Sockets,
         \/ \E a \in People, m \in Rooms : Connect(s, a, m)
         \/ AcceptSocket(s) \/ Disconnect(s) \/ EndSession(s)
  PROVE  ChannelInv'
<1>1. /\ UNCHANGED <<run, seats, lost, reactions, toggled, blurred>> /\ Follow(cast) /\ late \subseteq late'
      /\ socket \in [Sockets -> SocketType]
  BY DEF Connect, AcceptSocket, Disconnect, EndSession, communityVars, memberVars, reactionVars, ChannelInv, ChannelTypeOK
<1>2. /\ socket' \in [Sockets -> SocketType] /\ \A t \in Sockets : t # s => socket'[t] = socket[t]
      /\ \/ socket[s].state = "none" /\ socket'[s].state = "opening"
         \/ /\ socket[s].state = "opening" /\ socket'[s].state = "open" /\ (HasSeat(s) \/ s \in late')
            /\ socket'[s].room = socket[s].room /\ socket'[s].who = socket[s].who
         \/ /\ socket[s].state = "open" /\ socket'[s].state = "closed"
            /\ socket'[s].room = socket[s].room /\ socket'[s].who = socket[s].who
         \/ socket'[s] = socket[s]
  BY <1>1 DEF Connect, AcceptSocket, Disconnect, EndSession, Hangup, SocketType
<1>3. /\ cast' \in [Casts -> CastType] /\ \A c \in Casts : CastSound(c)'
      /\ \A t \in Sockets : socket[t].state = "open" => \A q \in Requests : Sweeps(q, t) => Sweeps(q, t)'
  <2>1. \A t \in Sockets : socket[t].state \in {"open", "closed"} =>
          socket'[t].room = socket[t].room /\ socket'[t].who = socket[t].who /\ socket'[t].state \in {"open", "closed"}
    BY <1>2
  <2> QED
    BY <1>1, <2>1, QuietCasts
<1>4. Swept'
  <2> SUFFICES ASSUME NEW t \in Sockets, socket'[t].state = "open", ~HasSeat(t)', t \notin late'
               PROVE  \E q \in Requests : Sweeps(q, t)'
    BY DEF Swept
  <2>1. socket[t].state = "open" /\ ~HasSeat(t) /\ t \notin late
    BY <1>1, <1>2 DEF HasSeat
  <2>2. PICK q \in Requests : Sweeps(q, t)
    BY <2>1 DEF ChannelInv, Swept
  <2> QED
    BY <1>3, <2>1, <2>2
<1>5. TogglesSound' /\ ReactionsAgree'
  BY <1>1, TogglesKept DEF Writing, At, reactionVars
<1>6. Clears' /\ ChannelTypeOK'
  BY <1>1, <1>2, <1>3 DEF ChannelInv, Clears, ChannelTypeOK
<1> QED
  BY <1>3, <1>4, <1>5, <1>6 DEF ChannelInv

\* A step of broadcast c alone: the record q is what c goes on with, and who has no seat
\* is closed, is yet to be asked about, or was asked about.
LEMMA CastKeeps ==
  ASSUME ChannelInv, NEW c \in Casts, NEW q \in CastType, Follow([cast EXCEPT ![c] = q]),
         UNCHANGED <<seats, run, lost, late, reactionVars>>, socket' \in [Sockets -> SocketType],
         q.kind # "none" => q.by = cast[c].by /\ q.room = cast[c].room /\ cast[c].kind # "none",
         \A s \in Sockets : \/ socket'[s] = socket[s]
                            \/ /\ socket'[s].state = "closed" /\ socket[s].state \in {"open", "closed"}
                               /\ socket'[s].room = socket[s].room /\ socket'[s].who = socket[s].who,
         q.kind # "none" => \A s \in Sockets : s \in q.todo \/ s = q.asked => s \in cast[c].todo \/ s = cast[c].asked,
         q.kind # "none" /\ q.asked # Nothing /\ q.access =>
           q.asked \in q.eligible \/ (HasAccess(q.asked)' /\ socket[q.asked].room = q.room),
         q.kind # "none" => q.reached \subseteq q.eligible,
         \A s \in Sockets : s \in cast[c].todo \/ (s = cast[c].asked /\ ~cast[c].access) =>
           \/ socket'[s].state # "open" \/ HasSeat(s)'
           \/ q.kind # "none" /\ (s \in q.todo \/ (s = q.asked /\ ~q.access))
  PROVE  ChannelInv'
<1> DEFINE D == [cast EXCEPT ![c] = q]
<1>1. /\ cast \in [Casts -> CastType] /\ socket \in [Sockets -> SocketType] /\ \A d \in Casts : CastSound(d)
      /\ D \in [Casts -> CastType] /\ D[c] = q /\ \A d \in Casts : d # c => D[d] = cast[d]
  BY DEF ChannelInv, ChannelTypeOK
<1> HIDE DEF D
<1>2. /\ cast' \in [Casts -> CastType]
      /\ \A d \in Casts : D[d].kind = "none" => cast'[d] = NoCast
      /\ \A d \in Casts : D[d].kind # "none" =>
           /\ cast'[d].kind = D[d].kind /\ cast'[d].room = D[d].room /\ cast'[d].by = D[d].by
           /\ cast'[d].todo = D[d].todo /\ cast'[d].asked = D[d].asked /\ cast'[d].access = D[d].access
           /\ cast'[d].reached = D[d].reached /\ D[d].eligible \subseteq cast'[d].eligible
           /\ \A s \in Sockets : socket[s].room = D[d].room /\ HasAccess(s)' => s \in cast'[d].eligible
  <2>1. Follow(D)
    BY DEF D
  <2> QED
    BY <1>1, <2>1, Followed
<1>3. \A s \in Sockets : socket'[s].room = socket[s].room /\ socket'[s].who = socket[s].who
                         /\ (socket'[s].state = "open" => socket'[s] = socket[s])
                         /\ (socket[s].state \in {"open", "closed"} => socket'[s].state \in {"open", "closed"})
  OBVIOUS
<1>4. ASSUME NEW d \in Casts PROVE CastSound(d)'
  <2>1. CASE D[d].kind = "none"
    BY <1>2, <2>1, ChannelAssumption DEF CastSound, NoCast
  <2>2. CASE D[d].kind # "none" /\ d = c
    <3>1. \A s \in Sockets : s \in cast'[d].todo \/ s = cast'[d].asked
            => socket'[s].room = cast'[d].room /\ socket'[s].state \in {"open", "closed"}
      BY <1>1, <1>2, <1>3, <2>2 DEF CastSound
    <3>2. cast'[d].asked # Nothing /\ cast'[d].access => cast'[d].asked \in cast'[d].eligible
      <4>1. q.asked # Nothing => q.asked \in Sockets
        BY DEF CastType
      <4> QED
        BY <1>1, <1>2, <2>2, <4>1
    <3>3. cast'[d].by # Nothing => run'[cast'[d].by].pc \in {"sync", "answer"}
      BY <1>1, <1>2, <2>2 DEF CastSound
    <3> QED
      BY <1>1, <1>2, <2>2, <3>1, <3>2, <3>3 DEF CastSound
  <2>3. CASE D[d].kind # "none" /\ d # c
    <3>1. \A s \in Sockets : s \in cast'[d].todo \/ s = cast'[d].asked
            => socket'[s].room = cast'[d].room /\ socket'[s].state \in {"open", "closed"}
      BY <1>1, <1>2, <1>3, <2>3 DEF CastSound
    <3> QED
      BY <1>1, <1>2, <2>3, <3>1 DEF CastSound
  <2> QED
    BY <2>1, <2>2, <2>3
<1>5. Swept'
  <2> SUFFICES ASSUME NEW s \in Sockets, socket'[s].state = "open", ~HasSeat(s)', s \notin late'
               PROVE  \E r \in Requests : Sweeps(r, s)'
    BY DEF Swept
  <2>1. socket[s].state = "open" /\ ~HasSeat(s) /\ s \notin late /\ socket'[s] = socket[s]
    BY <1>3 DEF HasSeat
  <2>2. PICK r \in Requests : Sweeps(r, s)
    BY <2>1 DEF ChannelInv, Swept
  <2>3. CASE run[r].op \in {"remove", "revoke"} /\ run[r].pc = "sync" /\ socket[s].room \in run[r].todo
    BY <2>1, <2>2, <2>3 DEF Sweeps
  <2>4. CASE \E d \in CastsOf(r) : s \in cast[d].todo \/ (s = cast[d].asked /\ ~cast[d].access)
    <3>1. PICK d \in Casts : cast[d].by = r /\ (s \in cast[d].todo \/ (s = cast[d].asked /\ ~cast[d].access))
      BY <2>4 DEF CastsOf
    <3>2. D[d].kind # "none" /\ D[d].by = r /\ (s \in D[d].todo \/ (s = D[d].asked /\ ~D[d].access))
      <4>1. CASE d = c
        BY <1>1, <3>1, <4>1
      <4>2. CASE d # c
        BY <1>1, <3>1, <4>2, ChannelAssumption DEF CastSound, NoCast
      <4> QED
        BY <4>1, <4>2
    <3>3. cast'[d].by = r /\ (s \in cast'[d].todo \/ (s = cast'[d].asked /\ ~cast'[d].access))
      BY <1>2, <3>2
    <3>4. Sweeps(r, s)'
      BY <2>1, <2>2, <3>3 DEF Sweeps, CastsOf
    <3> QED
      BY <3>4
  <2> QED
    BY <2>2, <2>3, <2>4 DEF Sweeps
<1>6. TogglesSound' /\ ReactionsAgree'
  BY TogglesKept DEF Writing, At
<1>7. Clears' /\ ChannelTypeOK'
  BY <1>2 DEF ChannelInv, Clears, ChannelTypeOK, reactionVars
<1> QED
  BY <1>4, <1>5, <1>6, <1>7 DEF ChannelInv

LEMMA AskKeeps ==
  ASSUME ChannelInv, NEW c \in Casts, NEW s \in Sockets, AskSocket(c, s)
  PROVE  ChannelInv'
<1> DEFINE access == Authorized(s)
<1>1. /\ cast[c].asked = Nothing /\ s \in cast[c].todo /\ UNCHANGED <<communityVars, socket, ended, late, reactionVars>>
      /\ Follow([cast EXCEPT ![c].todo = @ \ {s}, ![c].asked = s, ![c].access = access])
      /\ cast[c] \in CastType /\ cast \in [Casts -> CastType] /\ socket \in [Sockets -> SocketType] /\ CastSound(c)
  BY DEF AskSocket, ChannelInv, ChannelTypeOK
<1>2. access \in BOOLEAN /\ access = HasAccess(s) /\ HasAccess(s)' = HasAccess(s)
  BY <1>1 DEF Authorized, HasAccess, HasSeat, communityVars, memberVars
<1>3. PICK q \in CastType :
      /\ q = [cast[c] EXCEPT !.todo = @ \ {s}, !.asked = s, !.access = access] /\ q.kind = cast[c].kind /\ q.room = cast[c].room /\ q.by = cast[c].by
      /\ q.todo = cast[c].todo \ {s} /\ q.asked = s /\ q.access = access
      /\ q.reached = cast[c].reached /\ q.eligible = cast[c].eligible
  <2> HIDE DEF access
  <2> DEFINE w == [cast[c] EXCEPT !.todo = @ \ {s}, !.asked = s, !.access = access]
  <2>1. w \in CastType
    BY <1>1, <1>2 DEF CastType
  <2>2. /\ w.kind = cast[c].kind /\ w.room = cast[c].room /\ w.by = cast[c].by
        /\ w.todo = cast[c].todo \ {s} /\ w.asked = s /\ w.access = access
        /\ w.reached = cast[c].reached /\ w.eligible = cast[c].eligible
    BY <1>1, <1>2 DEF CastType
  <2> QED
    BY <2>1, <2>2
<1>4. [cast EXCEPT ![c].todo = @ \ {s}, ![c].asked = s, ![c].access = access] = [cast EXCEPT ![c] = q]
  BY <1>1, <1>3 DEF CastType
<1> HIDE DEF access
<1>5. /\ Follow([cast EXCEPT ![c] = q]) /\ UNCHANGED <<seats, run, lost, late, reactionVars>>
      /\ socket' \in [Sockets -> SocketType] /\ \A t \in Sockets : socket'[t] = socket[t]
  BY <1>1, <1>4 DEF communityVars, memberVars
<1>6. cast[c].kind # "none" /\ socket[s].room = cast[c].room /\ cast[c].reached \subseteq cast[c].eligible
  BY <1>1 DEF CastSound, NoCast
<1>7. access \/ ~HasSeat(s) \/ s \in ended
  BY <1>2 DEF HasAccess
<1>8. \A t \in Sockets : t \in cast[c].todo \/ (t = cast[c].asked /\ ~cast[c].access) =>
        HasSeat(t)' \/ t \in q.todo \/ (t = q.asked /\ ~q.access)
  <2>1. access => HasSeat(s)'
    BY <1>2 DEF HasAccess
  <2> QED
    BY <1>1, <1>3, <2>1, ChannelAssumption
<1>9. q.access => HasAccess(q.asked)' /\ socket[q.asked].room = q.room
  BY <1>2, <1>3, <1>6 DEF HasAccess, HasSeat
<1>10. \A t \in Sockets : t \in q.todo \/ t = q.asked => t \in cast[c].todo \/ t = cast[c].asked
  BY <1>1, <1>3
<1>11. /\ q.kind # "none" => q.by = cast[c].by /\ q.room = cast[c].room /\ cast[c].kind # "none"
       /\ q.kind # "none" => q.reached \subseteq q.eligible
       /\ \A t \in Sockets : t \in cast[c].todo \/ (t = cast[c].asked /\ ~cast[c].access) =>
            HasSeat(t)' \/ (q.kind # "none" /\ (t \in q.todo \/ (t = q.asked /\ ~q.access)))
  BY <1>3, <1>6, <1>8
<1> QED
  BY <1>5, <1>9, <1>10, <1>11, CastKeeps

LEMMA TellKeeps ==
  ASSUME ChannelInv, NEW c \in Casts, TellSocket(c)
  PROVE  ChannelInv'
<1> DEFINE s == cast[c].asked
           reached == IF cast[c].access /\ cast[c].kind = "payload" /\ socket[s].state = "open"
                      THEN cast[c].reached \cup {s} ELSE cast[c].reached
           q == [cast[c] EXCEPT !.asked = Nothing, !.reached = reached]
<1>1. /\ s # Nothing /\ UNCHANGED <<communityVars, ended, late, reactionVars>>
      /\ Follow([cast EXCEPT ![c].asked = Nothing, ![c].reached = reached])
      /\ socket' = IF cast[c].access THEN socket ELSE [socket EXCEPT ![s].state = "closed"]
      /\ cast[c] \in CastType /\ cast \in [Casts -> CastType] /\ socket \in [Sockets -> SocketType] /\ CastSound(c)
  BY DEF TellSocket, Hangup, ChannelInv, ChannelTypeOK
<1>2. s \in Sockets /\ reached \in SUBSET Sockets
  BY <1>1 DEF CastType
<1>3. reached \subseteq cast[c].eligible
  BY <1>1 DEF CastSound
<1> HIDE DEF reached
<1>4. /\ q \in CastType /\ q.kind = cast[c].kind /\ q.room = cast[c].room /\ q.by = cast[c].by
      /\ q.todo = cast[c].todo /\ q.asked = Nothing /\ q.access = cast[c].access
      /\ q.reached = reached /\ q.eligible = cast[c].eligible
  BY <1>1, <1>2 DEF CastType
<1>5. [cast EXCEPT ![c].asked = Nothing, ![c].reached = reached] = [cast EXCEPT ![c] = q]
  BY <1>1 DEF CastType
<1> HIDE DEF q
<1>6. /\ Follow([cast EXCEPT ![c] = q]) /\ UNCHANGED <<seats, run, lost, late, reactionVars>>
      /\ socket' \in [Sockets -> SocketType]
      /\ \A t \in Sockets : t # s => socket'[t] = socket[t]
      /\ \/ cast[c].access /\ socket'[s] = socket[s]
         \/ ~cast[c].access /\ socket'[s].state = "closed" /\ socket'[s].room = socket[s].room /\ socket'[s].who = socket[s].who
  BY <1>1, <1>2, <1>5 DEF communityVars, memberVars, SocketType
<1>7. cast[c].kind # "none" /\ socket[s].state \in {"open", "closed"}
  BY <1>1, <1>2 DEF CastSound, NoCast
<1>8. \A t \in Sockets : t \in cast[c].todo \/ (t = cast[c].asked /\ ~cast[c].access) =>
        socket'[t].state # "open" \/ t \in q.todo
  BY <1>4, <1>6
<1> QED
  BY <1>2, <1>3, <1>4, <1>6, <1>7, <1>8, ChannelAssumption, CastKeeps

LEMMA EndCastKeeps ==
  ASSUME ChannelInv, NEW c \in Casts, EndCast(c)
  PROVE  ChannelInv'
<1>1. /\ cast[c].todo = {} /\ cast[c].asked = Nothing /\ UNCHANGED <<communityVars, socket, ended, late, reactionVars>>
      /\ Follow([cast EXCEPT ![c] = NoCast]) /\ socket \in [Sockets -> SocketType]
  BY DEF EndCast, ChannelInv, ChannelTypeOK
<1>2. NoCast \in CastType /\ NoCast.kind = "none"
  BY DEF NoCast, CastType
<1>3. UNCHANGED <<seats, run, lost, late, reactionVars>> /\ socket' \in [Sockets -> SocketType]
  BY <1>1 DEF communityVars, memberVars
<1>4. \A t \in Sockets : socket'[t] = socket[t] /\ ~(t \in cast[c].todo \/ t = cast[c].asked)
  BY <1>1, ChannelAssumption
<1> QED
  BY <1>1, <1>2, <1>3, <1>4, CastKeeps

\* The coordinator takes a request of r, which goes on: what r was to sweep in room m the
\* broadcast asks about.
LEMMA StartKeeps ==
  ASSUME ChannelInv, NEW c \in Casts, NEW kind \in {"payload", "sweep"}, NEW m \in Rooms \cup {Nothing},
         NEW r \in Requests, NEW by \in {r, Nothing}, StartCast(c, kind, m, by),
         UNCHANGED <<socket, late, seats>>,
         \A q \in Requests : q # r => run'[q] = run[q],
         run'[r].who = run[r].who, run'[r].op = run[r].op,
         CastsOf(r) # {} \/ by = r => run'[r].pc \in {"sync", "answer"},
         run[r].pc = "sync" => by = r /\ \A n \in run[r].todo : n = m \/ (run'[r].pc = "sync" /\ n \in run'[r].todo)
  PROVE  cast' \in [Casts -> CastType] /\ (\A d \in Casts : CastSound(d)') /\ Swept'
<1> PICK q \in CastType : /\ q = [NoCast EXCEPT !.kind = kind, !.room = m, !.by = by, !.todo = Open(m)]
                          /\ q.kind = kind /\ q.room = m /\ q.by = by /\ q.todo = Open(m) /\ q.asked = Nothing
                          /\ q.access = FALSE /\ q.reached = {}
  <2> DEFINE w == [NoCast EXCEPT !.kind = kind, !.room = m, !.by = by, !.todo = Open(m)]
  <2>1. w \in CastType
    BY DEF CastType, NoCast, Open
  <2>2. /\ w.kind = kind /\ w.room = m /\ w.by = by /\ w.todo = Open(m) /\ w.asked = Nothing
        /\ w.access = FALSE /\ w.reached = {}
    BY DEF NoCast
  <2> QED
    BY <2>1, <2>2
<1> DEFINE D == [cast EXCEPT ![c] = q]
<1>1. /\ cast \in [Casts -> CastType] /\ socket \in [Sockets -> SocketType] /\ \A d \in Casts : CastSound(d)
      /\ D \in [Casts -> CastType] /\ D[c] = q /\ \A d \in Casts : d # c => D[d] = cast[d]
  BY DEF ChannelInv, ChannelTypeOK
<1> HIDE DEF D
<1>2. /\ cast' \in [Casts -> CastType]
      /\ \A d \in Casts : D[d].kind = "none" => cast'[d] = NoCast
      /\ \A d \in Casts : D[d].kind # "none" =>
           /\ cast'[d].kind = D[d].kind /\ cast'[d].room = D[d].room /\ cast'[d].by = D[d].by
           /\ cast'[d].todo = D[d].todo /\ cast'[d].asked = D[d].asked /\ cast'[d].access = D[d].access
           /\ cast'[d].reached = D[d].reached /\ D[d].eligible \subseteq cast'[d].eligible
  <2>1. Follow(D)
    BY DEF D, StartCast
  <2> QED
    BY <1>1, <2>1, Followed
<1>3. cast[c].kind = "none" /\ cast[c] = NoCast
  BY <1>1 DEF StartCast, CastSound
<1>4. /\ cast'[c].kind = kind /\ cast'[c].room = m /\ cast'[c].by = by /\ cast'[c].todo = Open(m)
      /\ cast'[c].asked = Nothing /\ cast'[c].access = FALSE /\ cast'[c].reached = {} /\ kind # "none"
      /\ by # Nothing => run'[by].pc \in {"sync", "answer"}
  <2>1. kind # "none"
    OBVIOUS
  <2>2. D[c] = q
    BY <1>1
  <2>3. cast'[c].kind = kind /\ cast'[c].room = m /\ cast'[c].by = by /\ cast'[c].todo = Open(m)
    BY <1>2, <2>1, <2>2
  <2>4. cast'[c].asked = Nothing /\ cast'[c].access = FALSE /\ cast'[c].reached = {}
    BY <1>2, <2>1, <2>2
  <2>5. by # Nothing => run'[by].pc \in {"sync", "answer"}
    OBVIOUS
  <2> QED
    BY <2>1, <2>3, <2>4, <2>5
<1>5. ASSUME NEW d \in Casts PROVE CastSound(d)'
  <2>1. CASE d = c
    <3>1. \A s \in Sockets : ~(s = cast'[c].asked)
      BY <1>4, ChannelAssumption
    <3>2. \A s \in Open(m) : socket'[s].room = m /\ socket'[s].state = "open"
      BY DEF Open
    <3>3. CastSound(c)'
      BY <1>4, <3>1, <3>2 DEF CastSound, Open
    <3> QED
      BY <2>1, <3>3
  <2>2. CASE d # c /\ cast[d].kind = "none"
    BY <1>1, <1>2, <2>2, ChannelAssumption DEF CastSound, NoCast
  <2>3. CASE d # c /\ cast[d].kind # "none"
    <3>1. cast'[d].by # Nothing => run'[cast'[d].by].pc \in {"sync", "answer"}
      <4>1. cast[d].by \in Requests \cup {Nothing} /\ (cast[d].by = r => CastsOf(r) # {})
        BY <1>1 DEF CastType, CastsOf
      <4> QED
        BY <1>1, <1>2, <2>3, <4>1 DEF CastSound
    <3> QED
      BY <1>1, <1>2, <2>3, <3>1 DEF CastSound
  <2> QED
    BY <2>1, <2>2, <2>3
<1>6. Swept'
  <2> SUFFICES ASSUME NEW s \in Sockets, socket[s].state = "open", ~HasSeat(s)', s \notin late
               PROVE  \E x \in Requests : Sweeps(x, s)'
    BY DEF Swept
  <2>1. ~HasSeat(s)
    BY DEF HasSeat
  <2>2. PICK x \in Requests : Sweeps(x, s)
    BY <2>1 DEF ChannelInv, Swept
  <2>3. run'[x].who = socket'[s].who
    BY <2>2 DEF Sweeps
  <2>4. CASE \E d \in CastsOf(x) : s \in cast[d].todo \/ (s = cast[d].asked /\ ~cast[d].access)
    <3>1. PICK d \in Casts : cast[d].by = x /\ (s \in cast[d].todo \/ (s = cast[d].asked /\ ~cast[d].access))
      BY <2>4 DEF CastsOf
    <3>2. d # c /\ cast[d].kind # "none"
      BY <1>1, <1>3, <3>1, ChannelAssumption DEF CastSound, NoCast
    <3>3. cast'[d].by = x /\ (s \in cast'[d].todo \/ (s = cast'[d].asked /\ ~cast'[d].access))
      BY <1>1, <1>2, <3>1, <3>2
    <3> QED
      BY <2>3, <3>3 DEF Sweeps, CastsOf
  <2>5. CASE run[x].op \in {"remove", "revoke"} /\ run[x].pc = "sync" /\ socket[s].room \in run[x].todo /\ x # r
    BY <2>3, <2>5 DEF Sweeps
  <2>6. CASE run[x].op \in {"remove", "revoke"} /\ run[x].pc = "sync" /\ socket[s].room \in run[x].todo /\ x = r
    <3>1. CASE socket[s].room = m
      <4>1. s \in cast'[c].todo /\ cast'[c].by = r
        BY <1>4, <2>6, <3>1 DEF Open
      <4> QED
        BY <2>3, <2>6, <4>1 DEF Sweeps, CastsOf
    <3>2. CASE socket[s].room # m
      BY <2>3, <2>6, <3>2 DEF Sweeps
    <3> QED
      BY <3>1, <3>2
  <2> QED
    BY <2>2, <2>4, <2>5, <2>6 DEF Sweeps
<1> QED
  BY <1>2, <1>5, <1>6

LEMMA SyncKeeps ==
  ASSUME RoomInv, ChannelInv, NEW r \in Requests, NEW m \in Rooms, SyncRoom(r, m)
  PROVE  ChannelInv'
<1> DEFINE pc == IF run[r].todo = {m} THEN "answer" ELSE run[r].pc
           todo == run[r].todo \ {m}
           w == [run[r] EXCEPT !.todo = todo, !.pc = pc]
<1>1. /\ run[r].pc = "sync" /\ m \in run[r].todo /\ UNCHANGED <<memberVars, lost, socket, ended, late, reactionVars>>
      /\ run' = [run EXCEPT ![r].todo = @ \ {m}, ![r].pc = IF run[r].todo = {m} THEN "answer" ELSE @]
      /\ run[r] \in RunType /\ run \in [Requests -> RunType]
  BY DEF SyncRoom, RoomInv, RoomTypeOK
<1>2. PICK c \in Casts : StartCast(c, "sweep", m, r)
  BY DEF SyncRoom
<1>3. run' = [run EXCEPT ![r] = w] /\ pc \in {"sync", "answer"} /\ (pc = "answer" => run[r].todo = {m})
  BY <1>1 DEF RunType
<1> HIDE DEF pc
<1>4. w.op = run[r].op /\ w.pc = pc /\ w.who = run[r].who /\ w.todo = todo
  BY <1>1 DEF RunType
<1>5. /\ run'[r].op = run[r].op /\ run'[r].who = run[r].who /\ run'[r].pc \in {"sync", "answer"} /\ run'[r].todo = todo
      /\ run'[r].pc = "answer" => run[r].todo = {m}
      /\ \A q \in Requests : q # r => run'[q] = run[q]
  BY <1>1, <1>3, <1>4
<1>6. \A n \in run[r].todo : n = m \/ (run'[r].pc = "sync" /\ n \in run'[r].todo)
  BY <1>5
<1>7. cast' \in [Casts -> CastType] /\ (\A d \in Casts : CastSound(d)') /\ Swept'
  BY <1>1, <1>2, <1>5, <1>6, StartKeeps DEF memberVars
<1>8. \A q \in Requests : Writing(q)' => Writing(q) /\ run'[q] = run[q]
  BY <1>1, <1>5 DEF Writing, At
<1>9. TogglesSound' /\ ReactionsAgree'
  BY <1>1, <1>8, TogglesKept
<1>10. Clears' /\ ChannelTypeOK'
  BY <1>1, <1>5, <1>7 DEF ChannelInv, Clears, ChannelTypeOK, reactionVars
<1> QED
  BY <1>7, <1>9, <1>10 DEF ChannelInv

LEMMA BroadcastKeeps ==
  ASSUME RoomInv, ChannelInv, NEW r \in Requests, Broadcast(r)
  PROVE  ChannelInv'
<1>1. /\ run[r].pc = "cast" /\ run[r].op \in {"post", "react"} /\ UNCHANGED <<memberVars, lost, socket, ended, late, reactionVars>>
      /\ run[r] \in RunType /\ run \in [Requests -> RunType]
  BY DEF Broadcast, At, RoomInv, RoomTypeOK
<1>2. PICK c \in Casts, m \in Rooms \cup {Nothing}, by \in {r, Nothing} : StartCast(c, "payload", m, by)
  BY <1>1 DEF Broadcast, RunType
<1>3. /\ run'[r].op = run[r].op /\ run'[r].who = run[r].who /\ run'[r].pc = "answer"
      /\ \A q \in Requests : q # r => run'[q] = run[q]
  BY <1>1 DEF Broadcast, Goto, RunType
<1>4. cast' \in [Casts -> CastType] /\ (\A d \in Casts : CastSound(d)') /\ Swept'
  BY <1>1, <1>2, <1>3, StartKeeps DEF memberVars
<1>5. \A q \in Requests : Writing(q)' => Writing(q) /\ run'[q] = run[q]
  BY <1>1, <1>3 DEF Writing, At
<1>6. TogglesSound' /\ ReactionsAgree'
  BY <1>1, <1>5, TogglesKept
<1>7. Clears' /\ ChannelTypeOK'
  BY <1>1, <1>3, <1>4 DEF ChannelInv, Clears, ChannelTypeOK, reactionVars
<1> QED
  BY <1>4, <1>6, <1>7 DEF ChannelInv

\* A run that has no broadcast under way and is to start none goes on.
LEMMA RunKeeps ==
  ASSUME ChannelInv, NEW r \in Requests, run[r].pc # "sync", CastsOf(r) = {}, Follow(cast),
         \A q \in Requests : q # r => run'[q] = run[q],
         run'[r].op = "revoke" /\ run'[r].pc = "clear" => run'[r].todo = {run'[r].room},
         UNCHANGED <<socket, seats, late>>,
         toggled' \in [Rooms -> SUBSET (People \cup Rooms)], blurred' \in [Rooms -> SUBSET (People \cup Rooms)]
  PROVE  ChannelTypeOK' /\ (\A c \in Casts : CastSound(c)') /\ Swept' /\ Clears'
<1>1. /\ cast' \in [Casts -> CastType] /\ \A c \in Casts : CastSound(c)'
      /\ \A s \in Sockets : socket[s].state = "open" => \A q \in Requests : Sweeps(q, s) => Sweeps(q, s)'
  <2>1. \A q \in Requests : run[q].pc = "sync" \/ CastsOf(q) # {} => run'[q] = run[q]
    OBVIOUS
  <2>2. \A s \in Sockets : socket[s].state \in {"open", "closed"} =>
          socket'[s].room = socket[s].room /\ socket'[s].who = socket[s].who /\ socket'[s].state \in {"open", "closed"}
    OBVIOUS
  <2> QED
    BY <2>1, <2>2, QuietCasts
<1>2. Swept'
  <2> SUFFICES ASSUME NEW s \in Sockets, socket[s].state = "open", ~HasSeat(s)', s \notin late
               PROVE  \E q \in Requests : Sweeps(q, s)'
    BY DEF Swept
  <2>1. ~HasSeat(s)
    BY DEF HasSeat
  <2>2. PICK q \in Requests : Sweeps(q, s)
    BY <2>1 DEF ChannelInv, Swept
  <2> QED
    BY <1>1, <2>2
<1>3. Clears'
  BY DEF ChannelInv, Clears
<1> QED
  BY <1>1, <1>2, <1>3 DEF ChannelInv, ChannelTypeOK

LEMMA FreeRun ==
  ASSUME ChannelInv, NEW r \in Requests, run[r].pc \notin {"sync", "answer"}
  PROVE  CastsOf(r) = {}
BY ChannelAssumption DEF ChannelInv, CastSound, CastsOf

LEMMA PostKeeps ==
  ASSUME RoomInv, ChannelInv, NEW r \in Requests,
         AnswerChange(r) \/ AppendMessage(r) \/ \E a \in People, m \in Rooms : BeginPost(r, a, m)
  PROVE  ChannelInv'
<1>1. run \in [Requests -> RunType] /\ run[r] \in RunType
  BY DEF RoomInv, RoomTypeOK
<1>2. /\ UNCHANGED <<seats, lost, socket, late, reactionVars>> /\ Follow(cast)
      /\ run[r].pc \in {"answer", "append", "idle"} /\ (run[r].pc = "answer" => CastsOf(r) = {})
      /\ run'[r].op \in {"none", "post"} \/ (run'[r].op = run[r].op /\ run'[r].pc = "cast")
      /\ \A q \in Requests : q # r => run'[q] = run[q]
  BY <1>1 DEF AnswerChange, AppendMessage, BeginPost, Begin, Leave, Goto, At, NotStarted, memberVars, RunType
<1>3. CastsOf(r) = {}
  BY <1>2, FreeRun
<1>4. /\ run'[r].op = "revoke" /\ run'[r].pc = "clear" => run'[r].todo = {run'[r].room}
      /\ toggled' \in [Rooms -> SUBSET (People \cup Rooms)] /\ blurred' \in [Rooms -> SUBSET (People \cup Rooms)]
  BY <1>2 DEF ChannelInv, ChannelTypeOK, reactionVars
<1>5. ChannelTypeOK' /\ (\A c \in Casts : CastSound(c)') /\ Swept' /\ Clears'
  BY <1>2, <1>3, <1>4, RunKeeps
<1>6. \A q \in Requests : Writing(q)' => Writing(q) /\ run'[q] = run[q]
  BY <1>2 DEF Writing, At
<1>7. TogglesSound' /\ ReactionsAgree'
  BY <1>2, <1>6, TogglesKept
<1> QED
  BY <1>5, <1>7 DEF ChannelInv

LEMMA BeginReactKeeps ==
  ASSUME RoomInv, ChannelInv, NEW r \in Requests, NEW a \in People, NEW m \in Rooms, BeginReact(r, a, m)
  PROVE  ChannelInv'
<1>1. run \in [Requests -> RunType] /\ reactions \in [Rooms -> SUBSET (People \cup Rooms)]
  BY DEF RoomInv, RoomTypeOK
<1>2. /\ UNCHANGED <<seats, lost, socket, late, reactions, toggled>> /\ Follow(cast) /\ run[r].pc = "idle" /\ r \notin lost
      /\ run'[r].op = "react" /\ run'[r].pc = "write" /\ run'[r].who = a /\ run'[r].room = m /\ run'[r].todo = reactions[m]
      /\ \A q \in Requests : q # r => run'[q] = run[q]
      /\ blurred' = [blurred EXCEPT ![m] = IF Toggling(m) = {} THEN @ ELSE @ \cup {a} \cup {run[q].who : q \in Toggling(m)}]
  BY <1>1 DEF BeginReact, Begin, memberVars
<1>3. \A q \in Toggling(m) : run[q].who \in People /\ q \in Requests /\ run[q].pc = "write"
  BY <1>1 DEF Toggling, Working, RoomInv, RoomTypeOK
<1>4. /\ blurred' \in [Rooms -> SUBSET (People \cup Rooms)] /\ \A n \in Rooms : blurred[n] \subseteq blurred'[n]
      /\ Toggling(m) # {} => a \in blurred'[m] /\ \A q \in Toggling(m) : run[q].who \in blurred'[m]
  BY <1>2, <1>3 DEF ChannelInv, ChannelTypeOK
<1>5. ChannelTypeOK' /\ (\A c \in Casts : CastSound(c)') /\ Swept' /\ Clears'
  <2>1. CastsOf(r) = {}
    BY <1>2, FreeRun
  <2>2. toggled' \in [Rooms -> SUBSET (People \cup Rooms)] /\ (run'[r].op = "revoke" => run'[r].todo = {run'[r].room})
    BY <1>2 DEF ChannelInv, ChannelTypeOK
  <2> QED
    BY <1>2, <1>4, <2>1, <2>2, RunKeeps
<1>6. \A q \in Requests : q # r => (Writing(q)' <=> Writing(q)) /\ run'[q] = run[q]
  BY <1>2 DEF Writing, At
<1>7. \A q \in Requests : q # r /\ Writing(q) /\ run[q].room = m => q \in Toggling(m)
  BY DEF Writing, At, Toggling, Working
<1>8. TogglesSound'
  <2>1. ASSUME NEW q \in Requests, Writing(q)'
        PROVE  /\ run'[q].room \in Rooms
               /\ \A b \in People \ blurred'[run'[q].room] : b \in run'[q].todo <=> b \in reactions'[run'[q].room]
    <3>1. CASE q = r
      BY <1>2, <3>1
    <3>2. CASE q # r
      <4>1. run[q].room \in Rooms /\ run'[q] = run[q]
            /\ \A b \in People \ blurred[run[q].room] : b \in run[q].todo <=> b \in reactions[run[q].room]
        BY <1>6, <2>1, <3>2 DEF ChannelInv, TogglesSound
      <4> QED
        BY <1>2, <1>4, <4>1
    <3> QED
      BY <3>1, <3>2
  <2>2. ASSUME NEW p \in Requests, NEW q \in Requests, Writing(p)', Writing(q)', p # q, run'[p].room = run'[q].room
        PROVE  run'[p].who \in blurred'[run'[q].room]
    <3>1. CASE p # r /\ q # r
      <4>1. run[p].who \in blurred[run[q].room] /\ run[q].room \in Rooms /\ run'[p] = run[p] /\ run'[q] = run[q]
        BY <1>6, <2>2, <3>1 DEF ChannelInv, TogglesSound
      <4> QED
        BY <1>4, <4>1
    <3>2. CASE p = r
      BY <1>2, <1>4, <1>6, <1>7, <2>2, <3>2
    <3>3. CASE q = r
      BY <1>2, <1>4, <1>6, <1>7, <2>2, <3>3
    <3> QED
      BY <3>1, <3>2, <3>3
  <2> QED
    BY <2>1, <2>2 DEF TogglesSound
<1>9. ReactionsAgree'
  BY <1>2, <1>4 DEF ChannelInv, ReactionsAgree
<1> QED
  BY <1>5, <1>8, <1>9 DEF ChannelInv

LEMMA WriteReactionsKeeps ==
  ASSUME RoomInv, ChannelInv, NEW r \in Requests, WriteReactions(r)
  PROVE  ChannelInv'
<1> PICK m \in Rooms, a \in People : m = run[r].room /\ a = run[r].who
  BY DEF WriteReactions, ChannelInv, TogglesSound, Writing, At, RoomInv, RoomTypeOK
<1>1. run \in [Requests -> RunType] /\ run[r] \in RunType /\ Writing(r)
  BY DEF RoomInv, RoomTypeOK, WriteReactions, Writing
<1>2. /\ UNCHANGED <<seats, lost, socket, late, blurred>> /\ Follow(cast) /\ run[r].pc = "write"
      /\ run' = [run EXCEPT ![r].pc = "cast", ![r].todo = {}]
      /\ reactions' = [reactions EXCEPT ![m] = NextReactions(r)] /\ toggled' = [toggled EXCEPT ![m] = Toggle(@, a)]
  BY DEF WriteReactions, At, memberVars
<1>3. run'[r].pc = "cast" /\ \A q \in Requests : q # r => run'[q] = run[q]
  <2> DEFINE w == [run[r] EXCEPT !.pc = "cast", !.todo = {}]
  <2>1. run' = [run EXCEPT ![r] = w]
    BY <1>1, <1>2 DEF RunType
  <2>2. w.pc = "cast"
    BY <1>1 DEF RunType
  <2> HIDE DEF w
  <2> QED
    BY <1>1, <2>1, <2>2
<1>4. /\ reactions \in [Rooms -> SUBSET (People \cup Rooms)] /\ toggled \in [Rooms -> SUBSET (People \cup Rooms)]
      /\ blurred \in [Rooms -> SUBSET (People \cup Rooms)]
  BY DEF RoomInv, RoomTypeOK, ChannelInv, ChannelTypeOK
<1>5. /\ toggled' \in [Rooms -> SUBSET (People \cup Rooms)]
      /\ \A n \in Rooms : n # m => reactions'[n] = reactions[n] /\ toggled'[n] = toggled[n]
      /\ \A b \in People \ {a} : /\ b \in reactions'[m] <=> b \in run[r].todo
                                 /\ b \in toggled'[m] <=> b \in toggled[m]
      /\ a \in reactions'[m] <=> a \notin run[r].todo
      /\ a \in toggled'[m] <=> a \notin toggled[m]
  BY <1>2, <1>4 DEF NextReactions, Toggle
<1>6. \A b \in People \ blurred[m] : /\ b \in run[r].todo <=> b \in reactions[m]
                                     /\ b \in reactions[m] <=> b \in toggled[m]
  BY <1>1 DEF ChannelInv, TogglesSound, ReactionsAgree
<1>7. ReactionsAgree'
  BY <1>2, <1>5, <1>6 DEF ChannelInv, ReactionsAgree
<1>8. \A q \in Requests : Writing(q)' => q # r /\ Writing(q) /\ run'[q] = run[q]
  BY <1>2, <1>3 DEF Writing, At
<1>9. TogglesSound'
  <2>1. ASSUME NEW q \in Requests, Writing(q)'
        PROVE  /\ run'[q].room \in Rooms
               /\ \A b \in People \ blurred'[run'[q].room] : b \in run'[q].todo <=> b \in reactions'[run'[q].room]
    <3>1. q # r /\ Writing(q) /\ run'[q] = run[q]
      BY <1>8, <2>1
    <3>2. /\ run[q].room \in Rooms
          /\ \A b \in People \ blurred[run[q].room] : b \in run[q].todo <=> b \in reactions[run[q].room]
          /\ run[q].room = m => a \in blurred[m]
      BY <1>1, <3>1 DEF ChannelInv, TogglesSound
    <3>3. CASE run[q].room = m
      BY <1>2, <1>5, <1>6, <3>1, <3>2, <3>3
    <3>4. CASE run[q].room # m
      <4> PICK n \in Rooms : n = run[q].room
        BY <3>2
      <4>1. n # m /\ run'[q].room = n /\ run'[q].todo = run[q].todo /\ reactions'[n] = reactions[n] /\ blurred'[n] = blurred[n]
        BY <1>2, <1>5, <3>1, <3>4
      <4> QED
        BY <3>2, <4>1
    <3> QED
      BY <3>3, <3>4
  <2>2. ASSUME NEW p \in Requests, NEW q \in Requests, Writing(p)', Writing(q)', p # q, run'[p].room = run'[q].room
        PROVE  run'[p].who \in blurred'[run'[q].room]
    BY <1>2, <1>8, <2>2 DEF ChannelInv, TogglesSound
  <2> QED
    BY <2>1, <2>2 DEF TogglesSound
<1>10. ChannelTypeOK' /\ (\A c \in Casts : CastSound(c)') /\ Swept' /\ Clears'
  <2>1. CastsOf(r) = {}
    BY <1>2, FreeRun
  <2> QED
    BY <1>2, <1>3, <1>4, <1>5, <2>1, RunKeeps
<1> QED
  BY <1>7, <1>9, <1>10 DEF ChannelInv

\* What a step of a run that changes the members does: a seat goes by the two steps that
\* clear seats alone.
LEMMA RunOfStep ==
  ASSUME RoomInv, NEW r \in Requests, CommunityStep(r)
  PROVE  /\ \A q \in Requests : q # r => run'[q] = run[q]
         /\ lost \subseteq lost'
         /\ \/ run' = run /\ seats' = seats
            \/ /\ run[r].pc \notin {"sync", "answer"} /\ run'[r].op \notin {"post", "react"}
               /\ run'[r].op = "revoke" /\ run'[r].pc = "clear" => run'[r].todo = {run'[r].room}
               /\ \/ ClearSeat(r) \/ LeaveRooms(r)
                  \/ \A m \in Rooms : seats[m] \subseteq seats'[m]
<1> DEFINE Plain == /\ run[r].pc \notin {"sync", "answer"} /\ run'[r].op \notin {"post", "react"}
                    /\ run'[r].op = "revoke" /\ run'[r].pc = "clear" => run'[r].todo = {run'[r].room}
                    /\ \A q \in Requests : q # r => run'[q] = run[q]
                    /\ lost' = lost
           Grow == \A m \in Rooms : seats[m] \subseteq seats'[m]
<1>1. run \in [Requests -> RunType] /\ run[r] \in RunType /\ seats \in [Rooms -> SUBSET People]
  BY DEF RoomInv, RoomTypeOK
<1>2. ASSUME NEW op, NEW pc, NEW who, NEW room, NEW access, NEW todo, Begin(r, op, pc, who, room, access, todo),
             op \notin {"post", "react"}, op = "revoke" => todo = {room}
      PROVE  Plain
  BY <1>1, <1>2 DEF Begin
<1>3. ASSUME NEW pc, Goto(r, pc), run[r].pc \notin {"sync", "answer"}, run[r].op \notin {"post", "react"}, pc # "clear", lost' = lost
      PROVE  Plain
  BY <1>1, <1>3 DEF Goto, RunType
<1>4. ASSUME NEW pc, NEW todo, run' = [run EXCEPT ![r].todo = todo, ![r].pc = pc],
             run[r].pc \notin {"sync", "answer"}, run[r].op \notin {"post", "react", "revoke"}, lost' = lost
      PROVE  Plain
  <2> DEFINE w == [run[r] EXCEPT !.todo = todo, !.pc = pc]
  <2>1. run' = [run EXCEPT ![r] = w] /\ w.op = run[r].op
    BY <1>1, <1>4 DEF RunType
  <2> HIDE DEF w
  <2>2. run'[r].op = run[r].op /\ \A q \in Requests : q # r => run'[q] = run[q]
    BY <1>1, <2>1
  <2> QED
    BY <1>4, <2>2
<1>5. ASSUME Leave(r), run[r].pc \notin {"sync", "answer"}, lost' = lost PROVE Plain
  BY <1>1, <1>5 DEF Leave, NotStarted
<1>6. ASSUME NEW m \in Rooms, NEW others \in SUBSET (People \ {Owner}), BeginFound(r, m, others) PROVE Plain /\ Grow
  BY <1>2, <1>6 DEF BeginFound
<1>7. ASSUME NEW m \in Rooms, NEW named \in SUBSET People, NEW access \in {"all_members", "restricted"},
             BeginRoom(r, m, access, named)
      PROVE  Plain /\ Grow
  BY <1>2, <1>7 DEF BeginRoom, memberVars
<1>8. ASSUME NEW a \in People, NEW m \in Rooms \cup {Nothing}, BeginAccept(r, a, m) PROVE Plain /\ Grow
  BY <1>2, <1>8 DEF BeginAccept, memberVars
<1>9. ASSUME NEW a \in People, NEW m \in Rooms, BeginGrant(r, a, m) \/ BeginRevoke(r, a, m) \/ BeginRemove(r, a)
      PROVE  Plain /\ Grow
  BY <1>2, <1>9 DEF BeginGrant, BeginRevoke, BeginRemove, memberVars
<1>10. ASSUME NEW a \in People, BeginRemove(r, a) PROVE Plain /\ Grow
  BY <1>2, <1>10 DEF BeginRemove, memberVars
<1>11. ASSUME NEW m \in Rooms, EnterRoom(r, m) PROVE Plain /\ Grow
  <2>1. run' = [run EXCEPT ![r].todo = run[r].todo \ {m},
                           ![r].pc = IF run[r].todo = {m} THEN AfterRooms(r) ELSE run[r].pc]
    BY <1>1, <1>11 DEF EnterRoom, RunType
  <2> QED
    BY <1>1, <1>4, <1>11, <2>1 DEF EnterRoom, At, Seat
<1>12. ASSUME NEW a \in People, LetIn(r, a) PROVE Plain /\ Grow
  <2>1. run' = [run EXCEPT ![r].todo = run[r].todo \ {a}, ![r].pc = IF run[r].todo = {a} THEN "insert" ELSE run[r].pc]
    BY <1>1, <1>12 DEF LetIn, RunType
  <2> QED
    BY <1>4, <1>12, <2>1 DEF LetIn, At
<1>13. ASSUME NEW a \in People, SeatMember(r, a) PROVE Plain /\ Grow
  <2>1. run' = [run EXCEPT ![r].todo = IF run[r].todo = {a} THEN {run[r].room} ELSE run[r].todo \ {a},
                           ![r].pc = IF run[r].todo = {a} THEN "sync" ELSE run[r].pc]
    BY <1>1, <1>13 DEF SeatMember, RunType
  <2> QED
    BY <1>1, <1>4, <1>13, <2>1 DEF SeatMember, At, Seat
<1>14. ASSUME InsertRoom(r) \/ JoinHall(r) \/ ReadTarget(r) \/ EnterTarget(r) \/ SeatGranted(r) \/ LeaveHall(r)
       PROVE  Plain /\ Grow
  <2>1. CASE InsertRoom(r) \/ JoinHall(r) \/ LeaveHall(r)
    BY <1>3, <2>1 DEF InsertRoom, JoinHall, LeaveHall, At
  <2>2. CASE ReadTarget(r)
    BY <1>3, <2>2 DEF ReadTarget, At, memberVars
  <2>3. CASE EnterTarget(r) \/ SeatGranted(r)
    BY <1>1, <1>3, <2>3 DEF EnterTarget, SeatGranted, At, Seat
  <2> QED
    BY <1>14, <2>1, <2>2, <2>3
<1>15. ASSUME ReadRole(r) \/ AnswerAccept(r) PROVE Plain /\ Grow
  BY <1>3, <1>5, <1>15 DEF ReadRole, AnswerAccept, At, memberVars
<1>16. ASSUME ReadHall(r) \/ ReadAffected(r) \/ ListRooms(r) PROVE Plain /\ Grow
  <2>1. CASE ReadHall(r)
    <3>1. run' = [run EXCEPT ![r].todo = Seated(r), ![r].pc = "seat"]
      BY <1>1, <2>1 DEF ReadHall, RunType
    <3> QED
      BY <1>4, <2>1, <3>1 DEF ReadHall, At, memberVars
  <2>2. CASE ReadAffected(r)
    <3>1. run' = [run EXCEPT ![r].todo = Created, ![r].pc = "rooms"]
      BY <1>1, <2>2 DEF ReadAffected, RunType
    <3> QED
      BY <1>4, <2>2, <3>1 DEF ReadAffected, At, memberVars
  <2>3. CASE ListRooms(r)
    <3>1. run' = [run EXCEPT ![r].todo = OpenRooms, ![r].pc = IF OpenRooms = {} THEN AfterRooms(r) ELSE "enter"]
      BY <1>1, <2>3 DEF ListRooms, RunType
    <3> QED
      BY <1>4, <2>3, <3>1 DEF ListRooms, At
  <2> QED
    BY <1>16, <2>1, <2>2, <2>3
<1>17. ASSUME ClearSeat(r) \/ LeaveRooms(r) PROVE Plain
  BY <1>3, <1>5, <1>17 DEF ClearSeat, LeaveRooms, At
<1>18. ASSUME LoseRun(r) PROVE run' = run /\ seats' = seats /\ lost \subseteq lost'
  BY <1>18 DEF LoseRun, memberVars
<1> QED
  BY <1>6, <1>7, <1>8, <1>9, <1>10, <1>11, <1>12, <1>13, <1>14, <1>15, <1>16, <1>17, <1>18 DEF CommunityStep

LEMMA MembersKeep ==
  ASSUME RoomInv, ChannelInv, NEW r \in Requests, ChangeMembers(r)
  PROVE  ChannelInv'
<1>1. /\ CommunityStep(r) /\ late' = late \cup Unlisted(r) /\ UNCHANGED <<socket, reactionVars>> /\ Follow(cast)
      /\ run \in [Requests -> RunType] /\ run[r] \in RunType
  BY DEF ChangeMembers, RoomInv, RoomTypeOK
<1>2. /\ \A q \in Requests : q # r => run'[q] = run[q]
      /\ lost \subseteq lost'
  BY <1>1, RunOfStep
<1>3. CASE run' = run /\ seats' = seats
  <2>1. /\ cast' \in [Casts -> CastType] /\ \A c \in Casts : CastSound(c)'
        /\ \A s \in Sockets : socket[s].state = "open" => \A q \in Requests : Sweeps(q, s) => Sweeps(q, s)'
    BY <1>1, <1>3, QuietCasts
  <2>2. Swept'
    <3> SUFFICES ASSUME NEW s \in Sockets, socket'[s].state = "open", ~HasSeat(s)', s \notin late'
                 PROVE  \E q \in Requests : Sweeps(q, s)'
      BY DEF Swept
    <3>1. socket[s].state = "open" /\ ~HasSeat(s) /\ s \notin late
      BY <1>1, <1>3 DEF HasSeat
    <3>2. PICK q \in Requests : Sweeps(q, s)
      BY <3>1 DEF ChannelInv, Swept
    <3> QED
      BY <2>1, <3>1, <3>2
  <2>3. TogglesSound' /\ ReactionsAgree'
    <3>1. \A q \in Requests : Writing(q)' => Writing(q) /\ run'[q] = run[q]
      BY <1>2, <1>3 DEF Writing, At
    <3> QED
      BY <1>1, <3>1, TogglesKept
  <2>4. Clears' /\ ChannelTypeOK'
    BY <1>1, <1>3, <2>1 DEF ChannelInv, Clears, ChannelTypeOK, reactionVars
  <2> QED
    BY <2>1, <2>2, <2>3, <2>4 DEF ChannelInv
<1>4. CASE /\ run[r].pc \notin {"sync", "answer"} /\ run'[r].op \notin {"post", "react"}
           /\ run'[r].op = "revoke" /\ run'[r].pc = "clear" => run'[r].todo = {run'[r].room}
           /\ \/ ClearSeat(r) \/ LeaveRooms(r)
              \/ \A m \in Rooms : seats[m] \subseteq seats'[m]
  <2>1. CastsOf(r) = {}
    BY <1>4, FreeRun
  <2>2. /\ cast' \in [Casts -> CastType] /\ \A c \in Casts : CastSound(c)'
        /\ \A s \in Sockets : socket[s].state = "open" => \A q \in Requests : Sweeps(q, s) => Sweeps(q, s)'
    <3>1. \A q \in Requests : run[q].pc = "sync" \/ CastsOf(q) # {} => run'[q] = run[q]
      BY <1>2, <1>4, <2>1
    <3>2. \A s \in Sockets : socket[s].state \in {"open", "closed"} =>
            socket'[s].room = socket[s].room /\ socket'[s].who = socket[s].who /\ socket'[s].state \in {"open", "closed"}
      BY <1>1
    <3> QED
      BY <1>1, <3>1, <3>2, QuietCasts
  <2>3. Swept'
    <3> SUFFICES ASSUME NEW s \in Sockets, socket[s].state = "open", ~HasSeat(s)', s \notin late, s \notin Unlisted(r)
                 PROVE  \E q \in Requests : Sweeps(q, s)'
      BY <1>1 DEF Swept
    <3>1. CASE ~HasSeat(s)
      BY <2>2, <3>1 DEF ChannelInv, Swept
    <3>2. CASE HasSeat(s)
      <4> PICK m \in Rooms, a \in People : a \in seats[m] /\ m = socket[s].room /\ a = socket[s].who
        BY <3>2 DEF HasSeat, RoomInv, RoomTypeOK
      <4>1. a \notin seats'[m] /\ socket'[s] = socket[s] /\ seats \in [Rooms -> SUBSET People]
        BY <1>1 DEF HasSeat, RoomInv, RoomTypeOK
      <4>2. CASE ClearSeat(r)
        <5>1. /\ run[r].op = "revoke" /\ run[r].pc = "clear" /\ seats' = [seats EXCEPT ![run[r].room] = @ \ {run[r].who}]
              /\ run'[r].op = "revoke" /\ run'[r].pc = "sync" /\ run'[r].who = run[r].who /\ run'[r].todo = run[r].todo
          BY <1>1, <4>2 DEF ClearSeat, At, Goto, RunType
        <5>2. run[r].todo = {run[r].room} /\ run[r].room \in Rooms
          BY <5>1 DEF ChannelInv, Clears, RoomInv, Builders
        <5>3. run[r].room = m /\ run[r].who = a
          BY <4>1, <5>1, <5>2
        <5> QED
          BY <4>1, <5>1, <5>2, <5>3 DEF Sweeps
      <4>3. CASE LeaveRooms(r)
        <5>1. /\ run[r].op = "remove" /\ run[r].pc = "rooms" /\ r \notin lost /\ lost' = lost
              /\ seats' = [n \in Rooms |-> seats[n] \ {run[r].who}]
              /\ IF run[r].todo = {} THEN run'[r].pc = "idle"
                 ELSE run'[r].op = "remove" /\ run'[r].pc = "sync" /\ run'[r].who = run[r].who /\ run'[r].todo = run[r].todo
          BY <1>1, <4>3 DEF LeaveRooms, At, Cleared, Goto, Leave, NotStarted, RunType
        <5>2. run[r].who = a
          BY <4>1, <5>1
        <5>3. m \in run[r].todo
          BY <5>1, <5>2 DEF Unlisted, At
        <5> QED
          BY <4>1, <5>1, <5>2, <5>3 DEF Sweeps
      <4> QED
        BY <1>4, <4>1, <4>2, <4>3
    <3> QED
      BY <3>1, <3>2
  <2>4. TogglesSound' /\ ReactionsAgree'
    <3>1. \A q \in Requests : Writing(q)' => Writing(q) /\ run'[q] = run[q]
      BY <1>2, <1>4 DEF Writing, At
    <3> QED
      BY <1>1, <3>1, TogglesKept
  <2>5. Clears' /\ ChannelTypeOK'
    BY <1>1, <1>2, <1>4, <2>2 DEF ChannelInv, Clears, ChannelTypeOK, reactionVars
  <2> QED
    BY <2>2, <2>3, <2>4, <2>5 DEF ChannelInv
<1> QED
  BY <1>1, <1>3, <1>4, RunOfStep

LEMMA RoomsKept == RoomInv /\ ChannelInv /\ [RoomNext]_roomVars => RoomInv' /\ ChannelInv'
<1> SUFFICES ASSUME RoomInv, ChannelInv, [RoomNext]_roomVars PROVE RoomInv' /\ ChannelInv'
  OBVIOUS
<1>1. RoomInv'
  BY RoomsFollowStep
<1> SUFFICES ChannelInv'
  BY <1>1
<1>2. CASE UNCHANGED roomVars
  <2>1. UNCHANGED <<seats, run, lost, socket, ended, cast, late, reactions, toggled, blurred>>
    BY <1>2 DEF roomVars, channelVars, reactionVars, communityVars, memberVars
  <2>2. ChannelTypeOK' /\ Clears' /\ TogglesSound' /\ ReactionsAgree'
    BY <2>1 DEF ChannelInv, ChannelTypeOK, Clears, TogglesSound, Writing, At, ReactionsAgree
  <2>3. \A c \in Casts : CastSound(c)'
    BY <2>1 DEF ChannelInv, CastSound
  <2>4. Swept'
    BY <2>1 DEF ChannelInv, Swept, Sweeps, CastsOf, HasSeat
  <2> QED
    BY <2>2, <2>3, <2>4 DEF ChannelInv
<1>3. CASE ChannelStep
  <2>1. ASSUME NEW s \in Sockets, NEW c \in Casts, AskSocket(c, s) PROVE ChannelInv'
    BY <2>1, AskKeeps
  <2>2. ASSUME NEW c \in Casts, TellSocket(c) \/ EndCast(c) PROVE ChannelInv'
    BY <2>2, TellKeeps, EndCastKeeps
  <2>3. ASSUME NEW r \in Requests, NEW m \in Rooms, SyncRoom(r, m) PROVE ChannelInv'
    BY <2>3, SyncKeeps
  <2>4. ASSUME NEW r \in Requests, NEW m \in Rooms, NEW a \in People, BeginPost(r, a, m) \/ BeginReact(r, a, m) PROVE ChannelInv'
    BY <2>4, PostKeeps, BeginReactKeeps
  <2>5. ASSUME NEW r \in Requests, AppendMessage(r) \/ Broadcast(r) \/ WriteReactions(r) \/ AnswerChange(r) PROVE ChannelInv'
    BY <2>5, PostKeeps, BroadcastKeeps, WriteReactionsKeeps
  <2>6. ASSUME NEW s \in Sockets, \/ \E a \in People, m \in Rooms : Connect(s, a, m)
                                  \/ AcceptSocket(s) \/ Disconnect(s) \/ EndSession(s)
        PROVE  ChannelInv'
    BY <2>6, SocketKeeps
  <2> QED
    <3>1. CASE \E s \in Sockets : \E c \in Casts : AskSocket(c, s)
      BY <2>1, <3>1
    <3>2. CASE \E s \in Sockets : \/ \E a \in People, m \in Rooms : Connect(s, a, m)
                                 \/ AcceptSocket(s) \/ Disconnect(s) \/ EndSession(s)
      <4> PICK s \in Sockets : \/ \E a \in People, m \in Rooms : Connect(s, a, m)
                               \/ AcceptSocket(s) \/ Disconnect(s) \/ EndSession(s)
        BY <3>2
      <4> QED
        BY <2>6
    <3>3. CASE \E c \in Casts : TellSocket(c) \/ EndCast(c)
      BY <2>2, <3>3
    <3>4. CASE \E r \in Requests, m \in Rooms :
                 SyncRoom(r, m) \/ \E a \in People : BeginPost(r, a, m) \/ BeginReact(r, a, m)
      BY <2>3, <2>4, <3>4
    <3>5. CASE \E r \in Requests : AppendMessage(r) \/ Broadcast(r) \/ WriteReactions(r) \/ AnswerChange(r)
      BY <2>5, <3>5
    <3> QED
      BY <1>3, <3>1, <3>2, <3>3, <3>4, <3>5 DEF ChannelStep
<1>4. ASSUME NEW r \in Requests, ChangeMembers(r) PROVE ChannelInv'
  BY <1>4, MembersKeep
<1> QED
  BY <1>2, <1>3, <1>4 DEF RoomNext

LEMMA RoomsHold == RoomSpec => [](RoomInv /\ ChannelInv)
BY RoomStart, ChannelStart, RoomsKept, PTL DEF RoomSpec

\* A message or a reaction goes only to sockets of accounts that had a seat and a session
\* at some time since its broadcast began, however its coordinator's questions about one
\* socket after the other interleave with removals and sign-outs; and once the handler that
\* took a seat away has answered, no socket of the account is left open in the room, but
\* for one accepted too late or in a room that its removal could not list.
THEOREM RemovedHear == RoomSpec => []RemovedHearNothing
<1>1. RoomInv /\ ChannelInv => RemovedHearNothing
  <2> SUFFICES ASSUME ChannelInv PROVE ReachesSeated /\ SocketsSwept
    BY DEF RemovedHearNothing
  <2>1. ReachesSeated
    BY DEF ChannelInv, CastSound, ReachesSeated
  <2>2. SocketsSwept
    <3> SUFFICES ASSUME NEW s \in Sockets, socket[s].state = "open", ~HasSeat(s), s \notin late
                 PROVE  \E r \in Requests : ToSweep(r, s)
      BY DEF SocketsSwept
    <3>1. PICK r \in Requests : Sweeps(r, s)
      BY DEF ChannelInv, Swept
    <3> QED
      BY <3>1 DEF Sweeps, ToSweep
  <2> QED
    BY <2>1, <2>2
<1> QED
  BY RoomsHold, <1>1, PTL

\* The reactions of a message are those toggled an odd number of times, whatever happens
\* to the members and rooms, but for accounts whose toggle overlapped another one.
THEOREM ReactionsKept == RoomSpec => []ReactionsAgree
<1>1. RoomInv /\ ChannelInv => ReactionsAgree
  BY DEF ChannelInv
<1> QED
  BY RoomsHold, <1>1, PTL
=============================================================================
