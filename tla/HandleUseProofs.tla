--------------------------- MODULE HandleUseProofs ---------------------------
(***************************************************************************)
(* What TLAPS proves about HandleUse, for any indexes, rows, key orders    *)
(* and block sizes, and wherever requests fail: the counter that DB2 reads *)
(* is exact, every request goes to an allocated instance with a buffer     *)
(* laid out for it, no row lock outlives the use of its instance, the lock *)
(* on the table is the one asked for, every change and positioned read is  *)
(* of the row that MySQL has, and scans hand over their rows in order.     *)
(***************************************************************************)
EXTENDS HandleUse, SequenceTheorems, FiniteSetTheorems, TLAPS

(* The records have their fields.                                          *)
Shape ==
  /\ DOMAIN h = {"open", "active", "refs", "index", "assoc", "release", "rrn",
                 "rndOk", "intent", "readFor", "writeFor"}
  /\ DOMAIN my = {"stage", "command", "unsafe", "scan", "row", "kept", "dup", "failed"}
  /\ DOMAIN my.scan = {"on", "dir", "pos", "ended"}

(* What is active and what is associated is allocated; nothing else is     *)
(* ever active but the table's instance and the indexes'.                  *)
Allocated ==
  /\ h.active \in h.open \cup {None} /\ h.assoc \in h.open \cup {None}
  /\ h.open \subseteq Handles /\ h.rndOk \in BOOLEAN

(* A scan has its instance active, and the read buffer laid out for it.    *)
Scanning ==
  /\ my.scan.on \in Handles \cup {None}
  /\ my.scan.on \in Indexes => h.active = my.scan.on /\ h.index = my.scan.on
  /\ my.scan.on \in Indexes /\ my.scan.dir # 0 => h.readFor = h.active
  /\ my.scan.on = Data /\ h.rndOk =>
       h.active = Data /\ h.readFor = Data /\ h.assoc \in {None, Data}
  /\ my.scan.on # Data => h.rndOk
  /\ my.scan.on = Data /\ ~h.rndOk => h.active = None
  /\ my.scan.on # None /\ h.active # None /\ h.intent = "update" => h.writeFor = h.active

(* A row that may be changed was read through the instance associated,     *)
(* and the write buffer is laid out for that one.                          *)
Changing ==
  /\ my.row # NoRow /\ ~my.failed =>
       /\ h.assoc # None /\ h.active \in {None, h.assoc}
       /\ h.intent = "update" => h.writeFor = h.assoc
  /\ my.dup # NoRow /\ ~my.failed => h.assoc # None /\ h.active \in {None, h.assoc}

(* Row locks are the active instance's, and known.                         *)
Locking ==
  /\ held # {} => held = {h.active} /\ h.active # None /\ h.release
  /\ my.stage = "idle" => h.active = None /\ my = Idle

(* Requests fit, but for the lock asked of no instance.                    *)
Fit == RequestsFit \/ (LockMayFail /\ asked = Asks(None, None, NoRow))

IInv == Shape /\ Allocated /\ Scanning /\ Changing /\ Locking /\ InUseExact /\ Fit

-----------------------------------------------------------------------------
(* The names tell instances from none.                                     *)
LEMMA Names == /\ None \notin Handles /\ Data \in Handles /\ Indexes \subseteq Handles
               /\ Data \notin Indexes /\ Data # None
BY HandleAssumption DEF Handles, Data, None

LEMMA Bumps == (0 + 1) % Wrap = 1 /\ (1 + -1) % Wrap = 0
BY SMT DEF Wrap

(* What taking and releasing does to the members.                          *)
LEMMA Takes ==
  ASSUME NEW s, "refs" \in DOMAIN s, "open" \in DOMAIN s, "active" \in DOMAIN s,
         s.refs = 0, NEW f
  PROVE  useFile(s, f) = [s EXCEPT !.open = @ \cup {f}, !.active = f, !.refs = 1]
BY Bumps DEF useFile, bumpInUseCounter

LEMMA Releases ==
  ASSUME NEW s, "refs" \in DOMAIN s, "release" \in DOMAIN s, "active" \in DOMAIN s,
         s.refs = 1
  PROVE  releaseActiveHandle(s) = [s EXCEPT !.active = None, !.release = FALSE, !.refs = 0]
BY Bumps DEF releaseActiveHandle, bumpInUseCounter
LEMMA ReleasedIfActive ==
  ASSUME Shape, InUseExact
  PROVE  releasedIfActive(h) = IF h.active = None THEN h
           ELSE [h EXCEPT !.active = None, !.release = FALSE, !.refs = 0]
BY Releases DEF releasedIfActive, InUseExact, Shape

LEMMA InitInv == Init => IInv
BY Names DEF Init, IInv, Shape, Allocated, Scanning, Changing, Locking, InUseExact, RequestsFit, Fit,
   Members, Idle, NoScan, NoKept, NoRow

(* What a step leaves as it was.                                           *)
Kept == /\ h'.active = h.active /\ h'.assoc = h.assoc /\ h'.refs = h.refs
        /\ h'.release = h.release /\ h'.index = h.index /\ h'.rndOk = h.rndOk
        /\ h'.readFor = h.readFor /\ h'.writeFor = h.writeFor /\ DOMAIN h' = DOMAIN h
MyKept == my'.scan = my.scan /\ my'.row = my.row /\ my'.dup = my.dup
          /\ my'.failed = my.failed /\ DOMAIN my' = DOMAIN my

(* From what a step does to the fields to the invariant.                   *)
LEMMA ReleasedLocks ==
  ASSUME Locking
  PROVE  releaseAnyLockedRows(h) = {}
BY DEF Locking, releaseAnyLockedRows

LEMMA OnlyHandler ==
  ASSUME IInv, Kept, h'.open \in {h.open, h.open \cup {Data}}, UNCHANGED held,
         MyKept, my' = my \/ my'.stage # "idle", h.intent = h'.intent \/ (my.row = NoRow /\ my.scan.on = None),
         asked' = {} \/ (asked' = Asks(Data, Data, NoRow) /\ Data \in h'.open) \/ Fit'
  PROVE  IInv'
<1> USE DEF IInv, Fit
<1>5. Shape' BY DEF Shape, Kept, MyKept
<1>6. Allocated' BY Names DEF Allocated, Kept
<1>7. Scanning' BY Names DEF Scanning, Kept, MyKept
<1>8. Changing' BY DEF Changing, Kept, MyKept
<1>9. Locking' BY DEF Locking, Kept, MyKept
<1>10. InUseExact' BY DEF InUseExact, Kept
<1>11. Fit' BY DEF RequestsFit, Asks
<1>12. QED BY <1>5, <1>6, <1>7, <1>8, <1>9, <1>10, <1>11

LEMMA ExternalLock ==
  ASSUME IInv, NEW command, NEW intent, NEW u, external_lock(command, intent, u)
  PROVE  IInv'
<1> USE DEF IInv, Fit
<1>1. Kept /\ h'.open \in {h.open, h.open \cup {Data}}
  BY ZenonT(60) DEF external_lock, instanceForLock, Shape, Kept
<1>2. \/ my' = my
      \/ my' = [my EXCEPT !.stage = "open", !.command = command, !.unsafe = u]
  BY DEF external_lock
<1>3. MyKept /\ (my' = my \/ my'.stage # "idle")
  <2>1. CASE my' = my BY <2>1 DEF MyKept
  <2>2. CASE my' = [my EXCEPT !.stage = "open", !.command = command, !.unsafe = u]
    BY <2>2 DEF Shape, MyKept
  <2>3. QED BY <1>2, <2>1, <2>2
<1>4. my.row = NoRow /\ my.scan.on = None
  BY DEF external_lock, Locking, Idle, NoScan
<1>5. UNCHANGED held BY DEF external_lock
<1>6. asked' = {} \/ (asked' = Asks(Data, Data, NoRow) /\ Data \in h'.open) \/ Fit'
  <2>1. \/ asked' = {}
        \/ asked' = Asks(Data, Data, NoRow) /\ h' = instanceForLock([h EXCEPT !.intent = intent])
        \/ LockMayFail /\ asked' = Asks(None, None, NoRow)
    BY DEF external_lock
  <2>2. Data \in instanceForLock([h EXCEPT !.intent = intent]).open
    BY DEF instanceForLock, Shape
  <2>3. QED BY <2>1, <2>2
<1>7. QED BY <1>1, <1>3, <1>4, <1>5, <1>6, OnlyHandler

LEMMA StartStmt == ASSUME IInv, start_stmt PROVE IInv'
<1>1. MyKept /\ my'.stage # "idle"
  BY DEF start_stmt, IInv, Shape, MyKept
<1>2. Kept /\ UNCHANGED <<h, held>> /\ asked' = {} BY DEF Kept, start_stmt
<1>3. QED BY <1>1, <1>2, OnlyHandler

(* F_UNLCK.                                                                *)
LEMMA ExternalUnlock ==
  ASSUME Shape, NEW command, NEW u, external_unlock(command, u)
  PROVE  /\ Kept /\ h'.open \in {h.open, h.open \cup {Data}} /\ h'.intent = h.intent
         /\ asked' = {} \/ (asked' = Asks(Data, Data, NoRow) /\ Data \in h'.open)
         /\ UNCHANGED held
<1>1. \/ h' = h /\ asked' = {}
      \/ h' = instanceForLock(h) /\ asked' = Asks(Data, Data, NoRow)
  BY DEF external_unlock
<1>2. UNCHANGED held BY DEF external_unlock
<1>3. CASE h' = h /\ asked' = {} BY <1>2, <1>3 DEF Kept
<1>4. CASE h' = instanceForLock(h) /\ asked' = Asks(Data, Data, NoRow)
  BY <1>2, <1>4 DEF instanceForLock, Shape, Kept
<1>5. QED BY <1>1, <1>3, <1>4

LEMMA UnlockTables == ASSUME IInv, unlockTables PROVE IInv'
<1>1. PICK command \in UnlockedBy : external_unlock(command, FALSE) BY DEF unlockTables
<1>2. my' = my /\ MyKept BY DEF unlockTables, MyKept
<1>3. QED BY <1>1, <1>2, OnlyHandler, ExternalUnlock DEF IInv

LEMMA UnlockStatement == ASSUME IInv, unlockStatement PROVE IInv'
<1> USE DEF IInv, Fit
<1>1. Kept /\ h'.open \in {h.open, h.open \cup {Data}} /\ UNCHANGED held
  BY ExternalUnlock DEF unlockStatement
<1>2. asked' = {} \/ (asked' = Asks(Data, Data, NoRow) /\ Data \in h'.open)
  BY ExternalUnlock DEF unlockStatement
<1>3. my' = [Idle EXCEPT !.stage = "unlocked"] /\ my.scan = NoScan BY DEF unlockStatement
<1>4. /\ my'.scan = NoScan /\ my'.row = NoRow /\ my'.dup = NoRow /\ my'.stage # "idle"
      /\ DOMAIN my' = DOMAIN my
  BY <1>3 DEF Idle, Shape
<1>5. Shape' BY <1>1, <1>3, <1>4 DEF Shape, Kept
<1>6. Allocated' BY <1>1, Names DEF Allocated, Kept
<1>7. Scanning' BY <1>1, <1>3, <1>4, Names DEF Scanning, Kept, NoScan
<1>8. Changing' BY <1>4 DEF Changing
<1>9. Locking' BY <1>1, <1>4 DEF Locking, Kept
<1>10. InUseExact' BY <1>1 DEF InUseExact, Kept
<1>11. RequestsFit' BY <1>2 DEF RequestsFit, Asks
<1>12. QED BY <1>5, <1>6, <1>7, <1>8, <1>9, <1>10, <1>11

LEMMA Reset == ASSUME IInv, reset PROVE IInv'
<1> USE DEF IInv, Fit
<1>1. /\ h'.active = None /\ h'.refs = 0 /\ h'.assoc = h.assoc /\ h'.open = h.open
      /\ h'.rndOk = TRUE /\ DOMAIN h' = DOMAIN h
  BY ReleasedIfActive DEF reset, Shape, InUseExact
<1>2. my' = Idle /\ held' = {} /\ asked' = {} BY ReleasedLocks DEF reset
<1>3. Shape'
  <2>1. my'.scan = NoScan BY <1>2 DEF Idle
  <2>2. DOMAIN my'.scan = {"on", "dir", "pos", "ended"} BY <2>1 DEF NoScan
  <2>3. DOMAIN my' = {"stage", "command", "unsafe", "scan", "row", "kept", "dup", "failed"}
    BY <1>2 DEF Idle
  <2>4. QED BY <1>1, <2>2, <2>3 DEF Shape
<1>4. Allocated' BY <1>1 DEF Allocated
<1>5. Scanning' BY <1>1, <1>2, Names DEF Scanning, Idle, NoScan
<1>6. Changing' BY <1>2 DEF Changing, Idle
<1>7. Locking' BY <1>1, <1>2 DEF Locking
<1>8. InUseExact' BY <1>1 DEF InUseExact
<1>9. RequestsFit' BY <1>2 DEF RequestsFit
<1>10. QED BY <1>3, <1>4, <1>5, <1>6, <1>7, <1>8, <1>9

(* A scan goes on: the rows of a block come from the instance of the scan. *)
OnFields(t) ==
  /\ t.active = h.active /\ t.refs = h.refs /\ t.index = h.index /\ t.rndOk = h.rndOk
  /\ t.open = h.open /\ t.intent = h.intent /\ t.writeFor = h.writeFor
  /\ t.assoc \in {h.assoc, h.active} /\ DOMAIN t = DOMAIN h

LEMMA DeliversFields ==
  ASSUME Shape, NEW s, NEW b, NEW scan, OnFields(s), s.assoc = h.assoc,
         DOMAIN scan = DOMAIN my.scan, scan.on = my.scan.on, Delivers(s, b, scan)
  PROVE  /\ OnFields(h') /\ h'.readFor = s.readFor /\ h'.release = s.release
         /\ my'.row # NoRow => h'.assoc = h.active
         /\ my'.scan.on = my.scan.on /\ my'.stage = my.stage /\ my'.failed = my.failed
         /\ my'.dup = my.dup /\ DOMAIN my' = DOMAIN my /\ DOMAIN my'.scan = DOMAIN my.scan
<1>1. CASE b.cursor < Len(b.rows)
  <2>1. /\ h' = [s EXCEPT !.rrn = nextRow(b), !.assoc = s.active]
        /\ my' = [my EXCEPT !.row = b.rows[b.cursor + 1],
                            !.scan = [scan EXCEPT !.pos = @ + scan.dir]]
    BY <1>1 DEF Delivers
  <2>2. QED BY <2>1 DEF Shape, OnFields
<1>2. CASE ~(b.cursor < Len(b.rows))
  <2>1. /\ h' = s /\ my' = [my EXCEPT !.row = NoRow, !.scan = [scan EXCEPT !.ended = TRUE]]
    BY <1>2 DEF Delivers
  <2>2. QED BY <2>1 DEF Shape, OnFields
<1>3. QED BY <1>1, <1>2

LEMMA ScanStep ==
  ASSUME IInv, NEW s, NEW b, NEW scan, OnFields(s), s.assoc = h.assoc, s.readFor = h.active,
         DOMAIN scan = DOMAIN my.scan, scan.on = my.scan.on, Delivers(s, b, scan),
         my.scan.on # None, my.scan.on \in Indexes \/ h.rndOk, Calls,
         \/ held' = held /\ s.release = h.release
         \/ held' = held \cup {h.active} /\ s.release = TRUE
         \/ held' = held \ {h.active},
         asked' = {} \/ asked' = Asks(h.active, h.active, NoRow)
  PROVE  IInv'
<1> USE DEF IInv, Fit
<1>1. /\ OnFields(h') /\ h'.readFor = h.active /\ h'.release = s.release
      /\ my'.row # NoRow => h'.assoc = h.active
      /\ my'.scan.on = my.scan.on /\ my'.stage = my.stage /\ my'.failed = my.failed
      /\ my'.dup = my.dup /\ DOMAIN my' = DOMAIN my /\ DOMAIN my'.scan = DOMAIN my.scan
  BY DeliversFields
<1>2. h.active = my.scan.on /\ h.active # None /\ h.active \in Handles
  BY Names DEF Scanning, Handles
<1>3. Shape' BY <1>1 DEF Shape, OnFields
<1>4. Allocated' BY <1>1, <1>2 DEF Allocated, OnFields
<1>5. Scanning' BY <1>1, <1>2, Names DEF Scanning, OnFields
<1>6. Changing' BY <1>1, <1>2 DEF Changing, Scanning, OnFields, Calls
<1>7. Locking' BY <1>1, <1>2 DEF Locking, OnFields, Calls
<1>8. InUseExact' BY <1>1 DEF InUseExact, OnFields
<1>9. RequestsFit' BY <1>1, <1>2 DEF RequestsFit, Asks, OnFields, Allocated
<1>10. QED BY <1>3, <1>4, <1>5, <1>6, <1>7, <1>8, <1>9

(* A call that fails: MySQL makes no other in this statement.              *)
LEMMA FailStep ==
  ASSUME IInv, Calls, Fails, Kept, h'.open = h.open, h'.intent = h.intent, UNCHANGED held,
         asked' = {} \/ (asked' \in {Asks(h.active, h.active, NoRow), Asks(h.assoc, h.assoc, NoRow)}
                        /\ asked' # Asks(None, None, NoRow))
  PROVE  IInv'
<1> USE DEF IInv, Fit
<1>1. /\ my'.scan = my.scan /\ my'.row = my.row /\ my'.dup = my.dup
      /\ my'.failed = TRUE /\ DOMAIN my' = DOMAIN my /\ my'.stage = my.stage
  BY DEF Fails, Shape
<1>2. Shape' BY <1>1 DEF Shape, Kept
<1>3. Allocated' BY DEF Allocated, Kept
<1>4. Scanning' BY <1>1 DEF Scanning, Kept
<1>5. Changing' BY <1>1 DEF Changing, Kept
<1>6. Locking' BY <1>1 DEF Locking, Kept, Calls
<1>7. InUseExact' BY DEF InUseExact, Kept
<1>8. RequestsFit' BY DEF RequestsFit, Asks, Allocated
<1>9. QED BY <1>2, <1>3, <1>4, <1>5, <1>6, <1>7, <1>8

-----------------------------------------------------------------------------
(* Scans.                                                                  *)
LEMMA IndexRead ==
  ASSUME IInv, NEW p, NEW d, index_read(p, d)
  PROVE  IInv'
<1> USE DEF IInv, Fit
<1>1. Calls /\ my.scan.on \in Indexes /\ my.scan.on # None BY Names DEF index_read
<1>2. h.index = h.active BY <1>1 DEF Scanning
<1>3. CASE doInitialRead(prepReadBuffer(h, h.index), p, d)
  <2> DEFINE r == prepReadBuffer(h, h.index)
             b == newReadRequest(r.active, p, d)
             s == [r EXCEPT !.release = ~b.ended]
             scan == [my.scan EXCEPT !.dir = d, !.pos = p - d, !.ended = FALSE]
  <2>1. /\ reads(r, b, p, d) /\ asked' = Asks(r.active, r.readFor, NoRow)
        /\ Delivers(s, b, scan)
    BY <1>3 DEF doInitialRead
  <2> HIDE DEF b
  <2>2. /\ r.active = h.active /\ r.readFor = h.active
        /\ OnFields(s) /\ s.assoc = h.assoc /\ s.readFor = h.active /\ s.release = ~b.ended
    BY <1>2 DEF prepReadBuffer, Shape, OnFields
  <2>3. held' = IF b.ended THEN held \ {h.active} ELSE held \cup {h.active}
    BY <2>1, <2>2 DEF reads
  <2>4. DOMAIN scan = DOMAIN my.scan /\ scan.on = my.scan.on BY DEF Shape
  <2> HIDE DEF r, s, scan
  <2>5. QED BY <1>1, <2>1, <2>2, <2>3, <2>4, ScanStep
<1>4. CASE Fails /\ UNCHANGED <<h, buf, at, held>> /\ asked' = Asks(h.active, h.active, NoRow)
  <2>1. Kept /\ h'.open = h.open /\ h'.intent = h.intent BY <1>4 DEF Kept
  <2>2. h.active # None BY <1>1, Names DEF Scanning
  <2>3. asked' # Asks(None, None, NoRow)
    <3>1. [on |-> h.active, layout |-> h.active, row |-> NoRow].on # None BY <2>2
    <3>2. [on |-> None, layout |-> None, row |-> NoRow].on = None OBVIOUS
    <3>3. QED BY <1>4, <3>1, <3>2 DEF Asks
  <2>4. QED BY <1>1, <1>4, <2>1, <2>3, FailStep
<1>5. QED BY <1>3, <1>4 DEF index_read

LEMMA ReadFromBuffer ==
  ASSUME IInv, NEW d, readFromBuffer(d), Calls, my.scan.dir # 0,
         my.scan.on \in Indexes \/ (my.scan.on = Data /\ h.rndOk)
  PROVE  IInv'
<1> USE DEF IInv, Fit
<1>1. h.readFor = h.active /\ my.scan.on # None BY Names DEF Scanning
<1>2. CASE buf.cursor < Len(buf.rows) \/ buf.ended
  <2>1. Delivers(h, buf, my.scan) /\ asked' = {} /\ UNCHANGED <<at, held>>
    BY <1>2 DEF readFromBuffer
  <2>2. OnFields(h) BY DEF OnFields
  <2>3. QED BY <1>1, <2>1, <2>2, ScanStep
<1>3. CASE ~(buf.cursor < Len(buf.rows) \/ buf.ended)
  <2> DEFINE b == loadNewRows(h.active, at + d, d)
             s == [h EXCEPT !.release = ~b.ended]
  <2>1. /\ reads(h, b, at + d, d) /\ asked' = Asks(h.active, h.readFor, NoRow)
        /\ Delivers(s, b, my.scan)
    BY <1>3 DEF readFromBuffer
  <2> HIDE DEF b
  <2>2. OnFields(s) /\ s.assoc = h.assoc /\ s.readFor = h.active /\ s.release = ~b.ended
    BY <1>1 DEF Shape, OnFields
  <2>3. held' = IF b.ended THEN held \ {h.active} ELSE held \cup {h.active}
    BY <2>1 DEF reads
  <2> HIDE DEF s
  <2>4. QED BY <1>1, <2>1, <2>2, <2>3, ScanStep
<1>4. QED BY <1>2, <1>3

LEMMA IndexNext == ASSUME IInv, index_next \/ index_prev PROVE IInv'
BY ReadFromBuffer DEF index_next, index_prev

(* A call that returns an error kept from an earlier one.                  *)
LEMMA RefusedStep ==
  ASSUME IInv, Calls, my' = [my EXCEPT !.failed = TRUE], asked' = {}, UNCHANGED <<h, held>>
  PROVE  IInv'
<1>1. /\ my'.scan = my.scan /\ my'.row = my.row /\ my'.dup = my.dup
      /\ my'.failed = TRUE /\ DOMAIN my' = DOMAIN my /\ my'.stage = my.stage
  BY DEF IInv, Shape
<1>2. QED
  BY <1>1 DEF IInv, Shape, Allocated, Scanning, Changing, Locking, InUseExact, RequestsFit, Fit, Calls

LEMMA RndNext == ASSUME IInv, rnd_next PROVE IInv'
<1>1. CASE h.rndOk BY <1>1, ReadFromBuffer DEF rnd_next
<1>2. CASE ~h.rndOk BY <1>2, RefusedStep DEF rnd_next
<1>3. QED BY <1>1, <1>2

(* A scan ends, and the instance is released if it was made active.        *)
LEMMA EndStep ==
  ASSUME IInv, my.stage = "open", my.scan.on # None,
         h'.active = None, h'.refs = 0, h'.assoc = h.assoc, h'.open = h.open, h'.rndOk = TRUE,
         h'.intent = h.intent, h'.writeFor = h.writeFor, DOMAIN h' = DOMAIN h,
         held' = {}, my' = [my EXCEPT !.scan = NoScan], asked' = {}
  PROVE  IInv'
<1> USE DEF IInv, Fit
<1>1. /\ my'.scan.on = None /\ my'.row = my.row /\ my'.dup = my.dup /\ my'.failed = my.failed
      /\ my'.stage = "open" /\ DOMAIN my' = DOMAIN my
      /\ DOMAIN my'.scan = {"on", "dir", "pos", "ended"}
  BY DEF Shape, NoScan
<1>2. Shape' BY <1>1 DEF Shape
<1>3. Allocated' BY DEF Allocated
<1>4. Scanning' BY <1>1, Names DEF Scanning
<1>5. Changing' BY <1>1 DEF Changing
<1>6. Locking' BY <1>1 DEF Locking
<1>7. InUseExact' BY DEF InUseExact
<1>8. RequestsFit' BY DEF RequestsFit
<1>9. QED BY <1>2, <1>3, <1>4, <1>5, <1>6, <1>7, <1>8

LEMMA IndexEnd == ASSUME IInv, index_end PROVE IInv'
<1>1. my.scan.on \in Indexes /\ my.stage = "open" BY DEF index_end
<1>2. h.active # None /\ my.scan.on # None /\ my.scan.on # Data
  BY <1>1, Names DEF IInv, Scanning
<1>3. h.refs = 1 BY <1>2 DEF IInv, InUseExact
<1>4. h' = [[h EXCEPT !.active = None, !.release = FALSE, !.refs = 0] EXCEPT !.index = None]
  BY <1>3, Releases DEF index_end, IInv, Shape
<1>5. h.rndOk = TRUE BY <1>2 DEF IInv, Scanning, Allocated
<1>6. held' = {} /\ my' = [my EXCEPT !.scan = NoScan] /\ asked' = {}
  BY ReleasedLocks DEF index_end, IInv
<1>7. QED BY <1>1, <1>2, <1>4, <1>5, <1>6, EndStep DEF IInv, Shape

LEMMA RndEnd == ASSUME IInv, rnd_end PROVE IInv'
<1>1. my.scan.on = Data /\ my.stage = "open" BY DEF rnd_end
<1>2. my.scan.on # None BY <1>1, Names
<1>3. CASE h.rndOk
  <2>1. h.active # None BY <1>1, <1>3, Names DEF IInv, Scanning
  <2>2. h.refs = 1 BY <2>1 DEF IInv, InUseExact
  <2>3. h' = [h EXCEPT !.active = None, !.release = FALSE, !.refs = 0]
    BY <1>3, <2>2, Releases DEF rnd_end, rnd_end_Releases, IInv, Shape
  <2>4. held' = {} /\ my' = [my EXCEPT !.scan = NoScan] /\ asked' = {}
    BY <1>3, ReleasedLocks DEF rnd_end, rnd_end_Releases, IInv
  <2>5. h.rndOk = TRUE BY <1>3 DEF IInv, Allocated
  <2>6. QED BY <1>1, <1>2, <2>3, <2>4, <2>5, EndStep DEF IInv, Shape
<1>4. CASE ~h.rndOk
  <2>1. h' = [h EXCEPT !.rndOk = TRUE] /\ UNCHANGED held
        /\ my' = [my EXCEPT !.scan = NoScan] /\ asked' = {}
    BY <1>4 DEF rnd_end, rnd_end_Releases
  <2>2. h.active = None BY <1>1, <1>4 DEF IInv, Scanning
  <2>3. h.refs = 0 /\ held = {} BY <2>2 DEF IInv, InUseExact, Locking
  <2>4. QED BY <1>1, <1>2, <2>1, <2>2, <2>3, EndStep DEF IInv, Shape
<1>5. QED BY <1>3, <1>4

LEMMA Position == ASSUME IInv, position PROVE IInv'
<1>1. /\ my' = [my EXCEPT !.kept = [pos |-> positionOf(h), row |-> my.row]] /\ Calls
      /\ asked' = {} /\ UNCHANGED <<h, held>>
  BY DEF position
<1>2. MyKept /\ my'.stage # "idle" BY <1>1 DEF IInv, Shape, MyKept, Calls
<1>3. Kept BY <1>1 DEF Kept
<1>4. QED BY <1>1, <1>2, <1>3, OnlyHandler

(* A scan begins, on an instance that is active or on none.                *)
LEMMA BeginStep ==
  ASSUME IInv, Calls, my.scan = NoScan, NEW f \in Handles,
         NEW dir, my'.scan.on = f, my'.scan.dir = dir, my'.row = NoRow, my'.dup = NoRow,
         my'.stage = my.stage, DOMAIN my' = DOMAIN my, DOMAIN my'.scan = DOMAIN my.scan,
         h'.assoc = None, h'.open \in {h.open, h.open \cup {f}}, DOMAIN h' = DOMAIN h,
         h'.rndOk \in BOOLEAN,
         \/ /\ h'.active = f /\ f \in h'.open /\ h'.refs = 1 /\ h'.rndOk = TRUE
            /\ (f = Data => h'.readFor = Data) /\ (f \in Indexes => h'.index = f /\ dir = 0)
            /\ (h'.intent = "update" => h'.writeFor = f)
            /\ (held' = {} \/ (held' = {f} /\ h'.release))
         \/ /\ f = Data /\ h'.active = None /\ h'.refs = 0 /\ h'.rndOk = FALSE /\ held' = {},
         asked' = {} \/ (asked' = Asks(f, f, NoRow) /\ f \in h'.open)
  PROVE  IInv'
<1> USE DEF IInv, Fit
<1>1. my'.stage = "open" BY DEF Calls
<1>2. Shape' BY <1>1 DEF Shape
<1>3. Allocated' BY Names DEF Allocated, Handles
<1>4. Scanning' BY <1>1, Names DEF Scanning
<1>5. Changing' BY <1>1 DEF Changing
<1>6. Locking' BY <1>1, Names DEF Locking
<1>7. InUseExact' BY Names DEF InUseExact
<1>8. RequestsFit' BY DEF RequestsFit, Asks
<1>9. QED BY <1>2, <1>3, <1>4, <1>5, <1>6, <1>7, <1>8

LEMMA IndexInit == ASSUME IInv, NEW i \in Indexes, index_init(i) PROVE IInv'
<1> USE DEF IInv, Fit
<1> DEFINE r == [releasedIfActive(h) EXCEPT !.index = i, !.assoc = None]
           u == useFile(r, i)
<1>1. Calls /\ my.scan = NoScan /\ held' = {} BY ReleasedLocks DEF index_init
<1>2. /\ r.active = None /\ r.refs = 0 /\ r.index = i /\ r.assoc = None /\ r.open = h.open
      /\ r.rndOk = TRUE /\ r.intent = h.intent /\ DOMAIN r = DOMAIN h
  <2>1. h.rndOk = TRUE BY <1>1, Names DEF Scanning, Allocated, NoScan
  <2>2. CASE h.active = None
    <3>1. h.refs = 0 /\ r = [h EXCEPT !.index = i, !.assoc = None]
      BY <2>2 DEF InUseExact, releasedIfActive
    <3>2. QED BY <2>1, <2>2, <3>1 DEF Shape
  <2>3. CASE h.active # None
    <3>1. r = [[h EXCEPT !.active = None, !.release = FALSE, !.refs = 0]
                 EXCEPT !.index = i, !.assoc = None]
      BY <2>3, ReleasedIfActive
    <3>2. QED BY <2>1, <3>1 DEF Shape
  <2>4. QED BY <2>2, <2>3
<1>3. \/ /\ h' = writeIfUpdatable(u, i) /\ asked' = Asks(i, i, NoRow)
         /\ my' = [my EXCEPT !.scan.on = i, !.row = NoRow, !.dup = NoRow]
      \/ Fails /\ h' = r /\ asked' = {}
      \/ Fails /\ h' = releaseActiveHandle(u) /\ asked' = Asks(i, i, NoRow)
  BY DEF index_init
<1> HIDE DEF r
<1>4. /\ u.active = i /\ u.refs = 1 /\ u.index = i /\ u.assoc = None /\ u.open = h.open \cup {i}
      /\ u.rndOk = TRUE /\ u.intent = h.intent /\ DOMAIN u = DOMAIN h
  <2>1. u = [r EXCEPT !.open = @ \cup {i}, !.active = i, !.refs = 1]
    <3>1. "refs" \in DOMAIN r /\ "open" \in DOMAIN r /\ "active" \in DOMAIN r BY <1>2 DEF Shape
    <3>2. QED BY <1>2, <3>1, Takes
  <2> HIDE DEF u
  <2>2. QED BY <1>2, <2>1 DEF Shape
<1> HIDE DEF u
<1>5. CASE /\ h' = writeIfUpdatable(u, i) /\ asked' = Asks(i, i, NoRow)
           /\ my' = [my EXCEPT !.scan.on = i, !.row = NoRow, !.dup = NoRow]
  <2>1. /\ h'.active = i /\ h'.refs = 1 /\ h'.index = i /\ h'.assoc = None
        /\ h'.open = h.open \cup {i} /\ h'.rndOk = TRUE /\ DOMAIN h' = DOMAIN h
        /\ h'.intent = "update" => h'.writeFor = i
    BY <1>4, <1>5 DEF writeIfUpdatable, prepWriteBuffer, Shape
  <2>2. /\ my'.scan.on = i /\ my'.scan.dir = 0 /\ my'.row = NoRow /\ my'.dup = NoRow
        /\ my'.stage = my.stage /\ DOMAIN my' = DOMAIN my /\ DOMAIN my'.scan = DOMAIN my.scan
    BY <1>1, <1>5 DEF NoScan, Shape
  <2>3. QED BY <1>1, <1>5, <2>1, <2>2, Names, BeginStep
<1>6. CASE /\ Fails
           /\ \/ h' = r /\ asked' = {}
              \/ h' = releaseActiveHandle(u) /\ asked' = Asks(i, i, NoRow)
  <2>1. /\ h'.active = None /\ h'.refs = 0 /\ h'.assoc = None
        /\ h'.open \in {h.open, h.open \cup {i}} /\ h'.rndOk = TRUE /\ DOMAIN h' = DOMAIN h
        /\ asked' = {} \/ (asked' = Asks(i, i, NoRow) /\ i \in h'.open)
    <3>1. CASE h' = r /\ asked' = {} BY <1>2, <3>1
    <3>2. CASE h' = releaseActiveHandle(u) /\ asked' = Asks(i, i, NoRow)
      <4>1. h' = [u EXCEPT !.active = None, !.release = FALSE, !.refs = 0]
        BY <1>4, <3>2, Releases DEF Shape
      <4>2. QED BY <1>4, <3>2, <4>1 DEF Shape
    <3>3. QED BY <1>6, <3>1, <3>2
  <2>2. /\ my'.scan = my.scan /\ my'.failed = TRUE /\ my'.stage = my.stage
        /\ DOMAIN my' = DOMAIN my /\ my.stage = "open" /\ my.scan.on = None
    BY <1>1, <1>6 DEF Fails, Shape, Calls, NoScan
  <2>3. Shape' /\ Locking' /\ InUseExact' BY <1>1, <2>1, <2>2 DEF Shape, Locking, InUseExact
  <2>4. Allocated' BY <2>1, Names DEF Allocated
  <2>5. Scanning' /\ Changing' BY <2>1, <2>2, Names DEF Scanning, Changing
  <2>6. RequestsFit' BY <2>1 DEF RequestsFit, Asks
  <2>7. QED BY <2>3, <2>4, <2>5, <2>6
<1>7. QED BY <1>3, <1>5, <1>6

LEMMA RndInit == ASSUME IInv, NEW scan \in BOOLEAN, rnd_init(scan) PROVE IInv'
<1> USE DEF IInv, Fit
<1> DEFINE r == [h EXCEPT !.assoc = None]
           u == rnd_init_Data(r)
           s == writeIfUpdatable(prepReadBuffer(u, Data), Data)
           b == newReadRequest(Data, 1, 1)
           begun == [NoScan EXCEPT !.on = Data, !.dir = IF scan THEN 1 ELSE 0]
<1>1. Calls /\ my.scan = NoScan /\ h.active \in {None, Data} /\ h.rndOk = TRUE
  <2>1. Calls /\ my.scan = NoScan /\ h.active \in {None, Data} BY DEF rnd_init
  <2>2. QED BY <2>1, Names DEF Scanning, Allocated, NoScan
<1>2. /\ my' = [my EXCEPT !.scan = begun, !.row = NoRow, !.dup = NoRow]
      /\ \/ /\ asked' = Asks(Data, Data, NoRow)
            /\ \/ reads(s, b, 1, 1) /\ h' = [s EXCEPT !.release = ~b.ended]
               \/ h' = s /\ UNCHANGED held
         \/ /\ Data \notin h.open /\ asked' = {} /\ UNCHANGED held
            /\ h' = [r EXCEPT !.rndOk = FALSE]
         \/ /\ h' = [releaseActiveHandle(u) EXCEPT !.rndOk = FALSE]
            /\ held' = releaseAnyLockedRows(u) /\ asked' = Asks(Data, Data, NoRow)
  BY DEF rnd_init
<1>3. /\ my'.scan.on = Data /\ my'.scan.dir = (IF scan THEN 1 ELSE 0) /\ my'.row = NoRow /\ my'.dup = NoRow
      /\ my'.stage = my.stage /\ DOMAIN my' = DOMAIN my /\ DOMAIN my'.scan = DOMAIN my.scan
  BY <1>1, <1>2 DEF NoScan, Shape
<1>4. /\ r.active = h.active /\ r.refs = h.refs /\ r.assoc = None /\ r.open = h.open
      /\ r.rndOk = TRUE /\ r.intent = h.intent /\ r.release = h.release /\ DOMAIN r = DOMAIN h
  BY <1>1 DEF Shape
<1>5. "refs" \in DOMAIN r /\ "open" \in DOMAIN r /\ "active" \in DOMAIN r /\ "release" \in DOMAIN r
  BY <1>4 DEF Shape
<1> HIDE DEF r, b, begun
<1>6. /\ u.active = Data /\ u.refs = 1 /\ u.assoc = None /\ u.open \in {h.open, h.open \cup {Data}}
      /\ Data \in u.open /\ u.rndOk = TRUE /\ u.release = h.release /\ DOMAIN u = DOMAIN h
  <2>1. CASE h.active = Data
    <3>1. u = r BY <2>1, <1>4 DEF rnd_init_Data
    <3>2. h.refs = 1 BY <2>1, Names DEF InUseExact
    <3>3. Data \in h.open BY <2>1, Names DEF Allocated
    <3> HIDE DEF u
    <3>4. QED BY <1>4, <2>1, <3>1, <3>2, <3>3
  <2>2. CASE h.active # Data
    <3>1. r.refs = 0 BY <2>2, <1>1, <1>4 DEF InUseExact
    <3>2. u = [r EXCEPT !.open = @ \cup {Data}, !.active = Data, !.refs = 1]
      BY <2>2, <1>4, <1>5, <3>1, Takes DEF rnd_init_Data
    <3> HIDE DEF u
    <3>3. QED BY <1>4, <1>5, <3>2 DEF Shape
  <2>3. QED BY <2>1, <2>2
<1> HIDE DEF u
<1>7. /\ s.active = Data /\ s.refs = 1 /\ s.assoc = None /\ s.open = u.open /\ s.readFor = Data
      /\ s.rndOk = TRUE /\ s.release = h.release /\ DOMAIN s = DOMAIN h
      /\ s.intent = "update" => s.writeFor = Data
  BY <1>6 DEF writeIfUpdatable, prepReadBuffer, prepWriteBuffer, Shape
<1> HIDE DEF s
<1>8. held = {} \/ (held = {Data} /\ h.release) BY <1>1 DEF Locking
<1>9. CASE asked' = Asks(Data, Data, NoRow) /\ reads(s, b, 1, 1) /\ h' = [s EXCEPT !.release = ~b.ended]
  <2>1. held' = IF b.ended THEN held \ {Data} ELSE held \cup {Data} BY <1>9, <1>7 DEF reads
  <2>2. held' = {} \/ (held' = {Data} /\ h'.release)
    BY <1>7, <1>8, <1>9, <2>1 DEF Shape
  <2>3. QED BY <1>1, <1>3, <1>6, <1>7, <1>9, <2>2, Names, BeginStep DEF Shape
<1>10. CASE asked' = Asks(Data, Data, NoRow) /\ h' = s /\ UNCHANGED held
  BY <1>1, <1>3, <1>6, <1>7, <1>8, <1>10, Names, BeginStep DEF Shape
<1>11. CASE /\ Data \notin h.open /\ asked' = {} /\ UNCHANGED held
            /\ h' = [r EXCEPT !.rndOk = FALSE]
  <2>1. h.active = None BY <1>1, <1>11, Names DEF Allocated
  <2>2. h.refs = 0 /\ held = {} BY <2>1 DEF InUseExact, Locking
  <2>3. /\ h'.active = None /\ h'.refs = 0 /\ h'.rndOk = FALSE /\ h'.assoc = None
        /\ h'.open = h.open /\ DOMAIN h' = DOMAIN h
    BY <1>4, <1>11, <2>1, <2>2 DEF Shape
  <2>4. QED BY <1>1, <1>3, <1>11, <2>2, <2>3, Names, BeginStep
<1>12. CASE /\ h' = [releaseActiveHandle(u) EXCEPT !.rndOk = FALSE]
            /\ held' = releaseAnyLockedRows(u) /\ asked' = Asks(Data, Data, NoRow)
  <2>1. releaseActiveHandle(u) = [u EXCEPT !.active = None, !.release = FALSE, !.refs = 0]
    BY <1>6, Releases DEF Shape
  <2>2. /\ h'.active = None /\ h'.refs = 0 /\ h'.rndOk = FALSE /\ h'.assoc = None
        /\ h'.open = u.open /\ DOMAIN h' = DOMAIN h
    BY <1>6, <1>12, <2>1 DEF Shape
  <2>3. held' = {} BY <1>6, <1>8, <1>12 DEF releaseAnyLockedRows
  <2>4. QED BY <1>1, <1>3, <1>6, <1>12, <2>2, <2>3, Names, BeginStep
<1>13. QED BY <1>2, <1>9, <1>10, <1>11, <1>12

-----------------------------------------------------------------------------
(* Positioned reads and changes.                                           *)

(* A call that uses an instance, keeps it or releases it.                  *)
LEMMA UseStep ==
  ASSUME IInv, Calls, my'.scan = my.scan, my'.stage = my.stage, DOMAIN my' = DOMAIN my,
         NEW t \in Handles, t \in h'.open, h'.open \in {h.open, h.open \cup {t}},
         DOMAIN h' = DOMAIN h, h'.rndOk = h.rndOk, h'.intent = h.intent,
         h'.assoc \in {h.assoc, t},
         \/ /\ h'.active = None /\ h'.refs = 0 /\ held' = {}
            /\ (my.scan.on = None \/ (my.scan.on = Data /\ ~h.rndOk))
         \/ /\ h'.active = t /\ h'.refs = 1 /\ (h'.intent = "update" => h'.writeFor = t)
            /\ (held' = {} \/ (held' = {t} /\ h'.release))
            /\ (my.scan.on = None \/ (my.scan.on = Data /\ t = Data /\ h.rndOk /\ h'.readFor = Data)),
         my'.failed \/ (my'.row = NoRow /\ my'.dup = NoRow)
           \/ (h'.assoc = t /\ (my'.row = NoRow \/ (h'.intent = "update" => h'.writeFor = t))),
         \A q \in asked' : q.on = t /\ q.layout = t
  PROVE  IInv'
<1> USE DEF IInv, Fit
<1>1. Shape' BY DEF Shape
<1>2. Allocated' BY Names DEF Allocated, Handles
<1>3. Scanning' BY Names DEF Scanning
<1>4. Changing' BY Names DEF Changing
<1>5. Locking' BY Names DEF Locking, Calls
<1>6. InUseExact' BY Names DEF InUseExact
<1>7. RequestsFit' BY DEF RequestsFit
<1>8. QED BY <1>1, <1>2, <1>3, <1>4, <1>5, <1>6, <1>7

LEMMA Asked ==
  ASSUME NEW f, NEW layout, NEW row, NEW q \in Asks(f, layout, row)
  PROVE  q.on = f /\ q.layout = layout
BY DEF Asks

(* What takes the instance associated with the row.                        *)
LEMMA TakesAssoc ==
  ASSUME NEW s, "refs" \in DOMAIN s, "index" \in DOMAIN s, "active" \in DOMAIN s,
         "assoc" \in DOMAIN s, s.refs = 0
  PROVE  useFileByHandle(s) = [s EXCEPT !.active = s.assoc,
                                  !.index = IF s.assoc = Data THEN @ ELSE s.assoc, !.refs = 1]
BY Bumps DEF useFileByHandle, bumpInUseCounter

LEMMA ChangeStep ==
  ASSUME IInv, update_row \/ delete_row
  PROVE  IInv'
<1> USE DEF IInv, Fit
<1> DEFINE taken == h.active = None
           s == IF taken THEN useFileByHandle(h) ELSE h
<1>1. Calls /\ h.intent = "update" /\ my.row # NoRow /\ ~my.failed
  BY DEF update_row, delete_row, Calls
<1>2. /\ h.assoc # None /\ h.active \in {None, h.assoc} /\ h.writeFor = h.assoc
      /\ h.assoc \in Handles /\ h.assoc \in h.open
  BY <1>1 DEF Changing, Allocated
<1>3. \/ /\ (h' = released(s, taken) \/ h' = released([s EXCEPT !.assoc = s.active], taken))
         /\ held' = rowsLeft(s, taken) /\ UNCHANGED my
         /\ (asked' = Asks(s.active, s.writeFor, s.rrn) \/ asked' = Asks(s.active, s.active, s.rrn))
      \/ taken /\ Fails /\ asked' = Asks(h.assoc, h.assoc, NoRow) /\ UNCHANGED <<h, held>>
  BY DEF update_row, delete_row
<1>4. /\ s.active = h.assoc /\ s.refs = 1 /\ s.assoc = h.assoc /\ s.open = h.open
      /\ s.writeFor = h.assoc /\ s.rndOk = h.rndOk /\ s.intent = h.intent /\ s.readFor = h.readFor
      /\ s.release = h.release /\ DOMAIN s = DOMAIN h
  <2>1. CASE taken
    <3>1. h.refs = 0 BY <2>1 DEF InUseExact
    <3>2. s = [h EXCEPT !.active = h.assoc,
                        !.index = IF h.assoc = Data THEN @ ELSE h.assoc, !.refs = 1]
      BY <2>1, <3>1, TakesAssoc DEF Shape
    <3> HIDE DEF s
    <3>2a. s.active = h.assoc BY <3>2 DEF Shape
    <3>3. QED BY <1>2, <2>1, <3>2, <3>2a DEF Shape
  <2>2. CASE ~taken
    <3>1. h.active = h.assoc /\ h.refs = 1 BY <1>2, <2>2 DEF InUseExact
    <3>2. QED BY <1>2, <2>2, <3>1
  <2>3. QED BY <2>1, <2>2
<1> HIDE DEF s
<1>5. CASE /\ (h' = released(s, taken) \/ h' = released([s EXCEPT !.assoc = s.active], taken))
           /\ held' = rowsLeft(s, taken) /\ UNCHANGED my
           /\ (asked' = Asks(s.active, s.writeFor, s.rrn) \/ asked' = Asks(s.active, s.active, s.rrn))
  <2> DEFINE z == [s EXCEPT !.assoc = s.active]
  <2>1. \A q \in asked' : q.on = h.assoc /\ q.layout = h.assoc BY <1>4, <1>5, Asked
  <2>2. /\ z.active = h.assoc /\ z.refs = 1 /\ z.assoc = h.assoc /\ z.open = h.open
        /\ z.writeFor = h.assoc /\ z.rndOk = h.rndOk /\ z.intent = h.intent /\ z.readFor = h.readFor
        /\ z.release = h.release /\ DOMAIN z = DOMAIN h
    BY <1>4 DEF Shape
  <2> HIDE DEF z
  <2>3. PICK y \in {s, z} : h' = released(y, taken) BY <1>5 DEF z
  <2>4. CASE taken
    <3>1. h' = [y EXCEPT !.active = None, !.release = FALSE, !.refs = 0]
      BY <1>4, <2>2, <2>3, <2>4, Releases DEF released, Shape
    <3>2. held' = {} BY <1>5, <1>4, <2>4 DEF rowsLeft, releaseAnyLockedRows, Locking
    <3>3. my.scan.on = None \/ (my.scan.on = Data /\ ~h.rndOk)
      BY <2>4, Names DEF Scanning, Handles
    <3>4. /\ h'.active = None /\ h'.refs = 0 /\ h'.assoc = h.assoc /\ h'.open = h.open
          /\ h'.writeFor = h.assoc /\ h'.rndOk = h.rndOk /\ h'.intent = h.intent
          /\ DOMAIN h' = DOMAIN h
      BY <1>4, <2>2, <3>1 DEF Shape
    <3>5. QED BY <1>1, <1>2, <1>5, <2>1, <3>2, <3>3, <3>4, UseStep
  <2>5. CASE ~taken
    <3>1. h' = y /\ UNCHANGED held BY <1>5, <2>3, <2>5 DEF released, rowsLeft
    <3>2. s = h /\ h.active = h.assoc BY <1>2, <2>5 DEF s
    <3>3. z = [h EXCEPT !.assoc = h.active] BY <3>2 DEF z
    <3>4. Kept /\ h'.open = h.open /\ h'.intent = h.intent
      BY <2>3, <3>1, <3>2, <3>3 DEF Kept, Shape
    <3>5. MyKept /\ my' = my BY <1>5 DEF MyKept
    <3>6. RequestsFit' BY <1>2, <2>1, <3>4 DEF RequestsFit
    <3>7. QED BY <3>1, <3>4, <3>5, <3>6, OnlyHandler
  <2>6. QED BY <2>4, <2>5
<1>6. CASE taken /\ Fails /\ asked' = Asks(h.assoc, h.assoc, NoRow) /\ UNCHANGED <<h, held>>
  <2>1. Kept BY <1>6 DEF Kept
  <2>2. asked' # Asks(None, None, NoRow)
    <3>1. [on |-> h.assoc, layout |-> h.assoc, row |-> NoRow].on # None BY <1>2
    <3>2. [on |-> None, layout |-> None, row |-> NoRow].on = None OBVIOUS
    <3>3. QED BY <1>6, <3>1, <3>2 DEF Asks
  <2>3. QED BY <1>1, <1>6, <2>1, <2>2, FailStep
<1>7. QED BY <1>3, <1>5, <1>6

LEMMA RndPos ==
  ASSUME IInv, NEW pos, NEW row, rnd_pos(pos, row), Calls,
         my.scan.on = Data \/ (my.scan = NoScan /\ my.dup # NoRow)
  PROVE  IInv'
<1> USE DEF IInv, Fit
<1>1. CASE ~h.rndOk BY <1>1, RefusedStep DEF rnd_pos
<1>2. CASE h.rndOk
  <2> DEFINE r == [h EXCEPT !.rrn = pos]
             u == switched(r)
             f == IF u.active = None THEN Data ELSE u.active
             s == writeIfUpdatable(prepReadBuffer(u, f), f)
             left == IF r.active = u.active THEN held ELSE releaseAnyLockedRows(r)
             t == IF my.scan.on = Data THEN Data ELSE h.assoc
  <2>1. \/ /\ h' = [s EXCEPT !.assoc = s.active, !.release = TRUE]
           /\ held' = left \cup {s.active} /\ my' = [my EXCEPT !.row = row]
           /\ asked' = Asks(s.active, s.readFor, s.rrn)
        \/ /\ Fails /\ h' = s /\ held' = left /\ asked' = Asks(s.active, s.readFor, NoRow)
        \/ /\ Fails /\ h' = [releasedIfActive(r) EXCEPT !.rrn = pos]
           /\ r.active # u.active /\ held' = left /\ asked' = Asks(r.assoc, r.assoc, NoRow)
    BY <1>2 DEF rnd_pos
  <2>2. /\ r.active = h.active /\ r.refs = h.refs /\ r.index = h.index /\ r.assoc = h.assoc
        /\ r.open = h.open /\ r.rndOk = h.rndOk /\ r.intent = h.intent
        /\ r.release = h.release /\ r.readFor = h.readFor /\ r.writeFor = h.writeFor
        /\ DOMAIN r = DOMAIN h
    BY DEF Shape
  <2>3. /\ t \in Handles /\ t \in h.open /\ h.active \in {None, t} /\ t # None
        /\ my.scan.on = None \/ (my.scan.on = Data /\ t = Data /\ h.active = t)
        /\ h.active = None => t = h.assoc
        /\ h.active = t => h.assoc \in {None, t}
    <3>1. CASE my.scan.on = Data BY <1>2, <3>1, Names DEF Scanning, Allocated
    <3>2. CASE my.scan = NoScan /\ my.dup # NoRow
      BY <3>2, Names DEF NoScan, Changing, Allocated, Calls
    <3>3. QED BY <3>1, <3>2
  <2> HIDE DEF r, t
  <2>4. /\ u.active = t /\ u.refs = 1 /\ u.open = h.open /\ u.rndOk = h.rndOk
        /\ u.intent = h.intent /\ u.release = h.release /\ u.writeFor = h.writeFor
        /\ DOMAIN u = DOMAIN h
    <3>1. CASE h.active = t
      <4>1. u = r BY <2>2, <2>3, <3>1 DEF switched
      <4>2. h.refs = 1 BY <2>3, <3>1 DEF InUseExact
      <4> HIDE DEF u
      <4>3. QED BY <2>2, <3>1, <4>1, <4>2
    <3>2. CASE h.active = None
      <4>1. r.refs = 0 BY <2>2, <3>2 DEF InUseExact
      <4>2. u = useFileByHandle(r) BY <2>2, <2>3, <3>2 DEF switched, releasedIfActive
      <4>3. useFileByHandle(r) = [r EXCEPT !.active = r.assoc,
                                     !.index = IF r.assoc = Data THEN @ ELSE r.assoc, !.refs = 1]
        BY <2>2, <4>1, TakesAssoc DEF Shape
      <4> HIDE DEF u
      <4>4. r.assoc = t BY <2>2, <2>3, <3>2
      <4>5. u.active = t BY <2>2, <4>2, <4>3, <4>4 DEF Shape
      <4>6. QED BY <2>2, <4>2, <4>3, <4>5 DEF Shape
    <3>3. QED BY <2>3, <3>1, <3>2
  <2>5. left = {} \/ (left = {t} /\ h.release)
    <3>1. CASE h.active = t BY <2>2, <2>4, <3>1 DEF Locking
    <3>2. CASE h.active = None BY <2>2, <2>3, <2>4, <3>2 DEF Locking, releaseAnyLockedRows
    <3>3. QED BY <2>3, <3>1, <3>2
  <2> HIDE DEF u, left
  <2>6. f = t BY <2>3, <2>4
  <2> HIDE DEF f
  <2>7. /\ s.active = t /\ s.refs = 1 /\ s.open = h.open /\ s.rndOk = h.rndOk
        /\ s.intent = h.intent /\ s.release = h.release /\ s.readFor = t
        /\ s.intent = "update" => s.writeFor = t
        /\ DOMAIN s = DOMAIN h
    BY <2>4, <2>6 DEF writeIfUpdatable, prepReadBuffer, prepWriteBuffer, Shape
  <2>7a. s.assoc = h.assoc
    <3>1. u.assoc = h.assoc
      <4>1. CASE h.active = t BY <2>2, <2>3, <4>1 DEF switched, u
      <4>2. CASE h.active = None
        BY <2>2, <2>3, <4>2 DEF switched, releasedIfActive, useFileByHandle, bumpInUseCounter, u,
                                Shape
      <4>3. QED BY <2>3, <4>1, <4>2
    <3>2. QED BY <2>4, <3>1 DEF writeIfUpdatable, prepReadBuffer, prepWriteBuffer, Shape
  <2> HIDE DEF s
  <2>8. CASE /\ h' = [s EXCEPT !.assoc = s.active, !.release = TRUE]
             /\ held' = left \cup {s.active} /\ my' = [my EXCEPT !.row = row]
             /\ asked' = Asks(s.active, s.readFor, s.rrn)
    <3>1. /\ my'.scan = my.scan /\ my'.stage = my.stage /\ DOMAIN my' = DOMAIN my
      BY <2>8 DEF Shape
    <3>2. /\ h'.active = t /\ h'.refs = 1 /\ h'.open = h.open /\ h'.rndOk = h.rndOk
          /\ h'.intent = h.intent /\ h'.release = TRUE /\ h'.readFor = t /\ h'.assoc = t
          /\ h'.intent = "update" => h'.writeFor = t
          /\ DOMAIN h' = DOMAIN h
      BY <2>7, <2>8 DEF Shape
    <3>3. held' = {t} BY <2>5, <2>7, <2>8
    <3>4. \A q \in asked' : q.on = t /\ q.layout = t BY <2>7, <2>8, Asked
    <3>5. QED BY <1>2, <2>3, <3>1, <3>2, <3>3, <3>4, UseStep
  <2>9. CASE Fails /\ h' = s /\ held' = left /\ asked' = Asks(s.active, s.readFor, NoRow)
    <3>1. /\ my'.scan = my.scan /\ my'.stage = my.stage /\ DOMAIN my' = DOMAIN my /\ my'.failed
      BY <2>9 DEF Shape, Fails
    <3>2. \A q \in asked' : q.on = t /\ q.layout = t BY <2>7, <2>9, Asked
    <3>3. QED BY <1>2, <2>3, <2>5, <2>7, <2>7a, <2>9, <3>1, <3>2, UseStep
  <2>10. CASE /\ Fails /\ h' = [releasedIfActive(r) EXCEPT !.rrn = pos]
              /\ r.active # u.active /\ held' = left /\ asked' = Asks(r.assoc, r.assoc, NoRow)
    <3>1. h.active = None /\ t = h.assoc BY <2>2, <2>3, <2>4, <2>10
    <3>2. h.refs = 0 /\ held = {} BY <3>1 DEF InUseExact, Locking
    <3>3. releasedIfActive(r) = r BY <2>2, <3>1 DEF releasedIfActive
    <3>4. Kept /\ h'.open = h.open /\ h'.intent = h.intent
      BY <2>2, <2>10, <3>3 DEF Kept, Shape
    <3>5. held' = held BY <2>2, <2>4, <2>10, <3>1, <3>2, <2>3 DEF left, releaseAnyLockedRows
    <3>6. asked' = Asks(h.assoc, h.assoc, NoRow) BY <2>2, <2>10
    <3>7. asked' # Asks(None, None, NoRow)
      <4>1. [on |-> h.assoc, layout |-> h.assoc, row |-> NoRow].on # None BY <2>3, <3>1
      <4>2. [on |-> None, layout |-> None, row |-> NoRow].on = None OBVIOUS
      <4>3. QED BY <3>6, <4>1, <4>2 DEF Asks
    <3>8. QED BY <2>10, <3>4, <3>5, <3>6, <3>7, FailStep
  <2>11. QED BY <2>1, <2>8, <2>9, <2>10
<1>3. QED BY <1>1, <1>2

LEMMA WriteRow == ASSUME IInv, write_row PROVE IInv'
<1> USE DEF IInv, Fit
<1> DEFINE taken == h.active = None
           u == IF taken THEN useFile(h, Data) ELSE h
           s == prepWriteBuffer(u, u.active)
           t == IF taken THEN Data ELSE h.active
           z == [s EXCEPT !.assoc = s.active]
<1>1. Calls /\ h.intent = "update" /\ my.scan = NoScan /\ my.scan.on = None
  <2>1. Calls /\ h.intent = "update" /\ my.scan = NoScan BY DEF write_row
  <2>2. QED BY <2>1 DEF NoScan
<1>2. \/ /\ h' = released(s, taken) /\ my' = [my EXCEPT !.row = NoRow, !.dup = NoRow]
         /\ held' = rowsLeft(s, taken) /\ asked' = Asks(s.active, s.writeFor, NoRow)
      \/ /\ h' = released(z, taken)
         /\ \E r \in Rows : my' = [my EXCEPT !.row = NoRow, !.dup = r]
         /\ held' = rowsLeft(s, taken) /\ asked' = Asks(s.active, s.writeFor, NoRow)
      \/ /\ taken /\ Fails /\ asked' = {} /\ UNCHANGED <<h, held>>
      \/ /\ Fails /\ h' = released(u, taken) /\ held' = rowsLeft(u, taken)
         /\ asked' = Asks(u.active, u.active, NoRow)
  BY DEF write_row
<1>3. /\ t \in Handles /\ t # None
      /\ taken => h.refs = 0 /\ held = {}
      /\ ~taken => h.refs = 1 /\ t \in h.open /\ (held = {} \/ (held = {t} /\ h.release))
  BY Names DEF InUseExact, Allocated, Locking
<1>4. /\ u.active = t /\ u.refs = 1 /\ t \in u.open /\ u.open \in {h.open, h.open \cup {t}}
      /\ u.rndOk = h.rndOk /\ u.intent = h.intent /\ u.assoc = h.assoc
      /\ u.release = h.release /\ DOMAIN u = DOMAIN h
  <2>1. CASE taken
    <3>1. u = [h EXCEPT !.open = @ \cup {Data}, !.active = Data, !.refs = 1]
      BY <1>3, <2>1, Takes DEF Shape
    <3> HIDE DEF u
    <3>2. QED BY <2>1, <3>1 DEF Shape
  <2>2. CASE ~taken BY <1>3, <2>2
  <2>3. QED BY <2>1, <2>2
<1>5. ~taken => u = h OBVIOUS
<1> HIDE DEF u, t
<1>6. /\ s.active = t /\ s.refs = 1 /\ t \in s.open /\ s.open \in {h.open, h.open \cup {t}}
      /\ s.rndOk = h.rndOk /\ s.intent = h.intent /\ s.assoc = h.assoc
      /\ s.release = h.release /\ DOMAIN s = DOMAIN h /\ s.writeFor = t
  BY <1>4 DEF prepWriteBuffer, Shape
<1> HIDE DEF s
<1>7. /\ z.active = t /\ z.refs = 1 /\ t \in z.open /\ z.open \in {h.open, h.open \cup {t}}
      /\ z.rndOk = h.rndOk /\ z.intent = h.intent /\ z.assoc = t
      /\ z.release = h.release /\ DOMAIN z = DOMAIN h /\ z.writeFor = t
  BY <1>6 DEF Shape
<1> HIDE DEF z
<1>8. CASE /\ \E y \in {s, z} : h' = released(y, taken)
           /\ held' = rowsLeft(s, taken) /\ asked' = Asks(s.active, s.writeFor, NoRow)
           /\ my'.row = NoRow /\ (my'.dup = NoRow \/ h' = released(z, taken))
           /\ my'.scan = my.scan /\ my'.stage = my.stage /\ DOMAIN my' = DOMAIN my
  <2>1. \A q \in asked' : q.on = t /\ q.layout = t BY <1>6, <1>8, Asked
  <2>2. CASE taken
    <3>1. \A y \in {s, z} : released(y, taken) = [y EXCEPT !.active = None, !.release = FALSE, !.refs = 0]
      BY <1>6, <1>7, <2>2, Releases DEF released, Shape
    <3>2. PICK y \in {s, z} : /\ h' = [y EXCEPT !.active = None, !.release = FALSE, !.refs = 0]
                              /\ my'.dup = NoRow \/ y = z
      BY <1>8, <3>1
    <3>3. /\ h'.active = None /\ h'.refs = 0 /\ t \in h'.open /\ h'.open \in {h.open, h.open \cup {t}}
          /\ h'.rndOk = h.rndOk /\ h'.intent = h.intent /\ DOMAIN h' = DOMAIN h
          /\ h'.assoc \in {h.assoc, t} /\ h'.writeFor = t /\ (my'.dup = NoRow \/ h'.assoc = t)
      BY <1>6, <1>7, <3>2 DEF Shape
    <3>4. held' = {} BY <1>3, <1>8, <2>2 DEF rowsLeft, releaseAnyLockedRows
    <3>5. QED BY <1>1, <1>3, <1>8, <2>1, <3>3, <3>4, UseStep
  <2>3. CASE ~taken
    <3>1. PICK y \in {s, z} : h' = y /\ (my'.dup = NoRow \/ y = z)
      BY <1>8, <2>3 DEF released
    <3>2. held' = held BY <1>8, <2>3 DEF rowsLeft
    <3>3. QED BY <1>1, <1>3, <1>6, <1>7, <1>8, <2>1, <2>3, <3>1, <3>2, UseStep
  <2>4. QED BY <2>2, <2>3
<1>9. CASE taken /\ Fails /\ asked' = {} /\ UNCHANGED <<h, held>>
  BY <1>1, <1>9, FailStep DEF Kept
<1>10. CASE /\ Fails /\ h' = released(u, taken) /\ held' = rowsLeft(u, taken)
            /\ asked' = Asks(u.active, u.active, NoRow)
  <2>1. CASE taken
    <3>1. h' = [u EXCEPT !.active = None, !.release = FALSE, !.refs = 0]
      BY <1>4, <1>10, <2>1, Releases DEF released, Shape
    <3>2. /\ h'.active = None /\ h'.refs = 0 /\ t \in h'.open /\ h'.open \in {h.open, h.open \cup {t}}
          /\ h'.rndOk = h.rndOk /\ h'.intent = h.intent /\ DOMAIN h' = DOMAIN h
          /\ h'.assoc = h.assoc
      BY <1>4, <3>1 DEF Shape
    <3>3. held' = {} BY <1>3, <1>10, <2>1 DEF rowsLeft, releaseAnyLockedRows
    <3>4. /\ my'.scan = my.scan /\ my'.stage = my.stage /\ DOMAIN my' = DOMAIN my /\ my'.failed
      BY <1>10 DEF Shape, Fails
    <3>5. \A q \in asked' : q.on = t /\ q.layout = t BY <1>4, <1>10, Asked
    <3>6. QED BY <1>1, <1>3, <3>2, <3>3, <3>4, <3>5, UseStep
  <2>2. CASE ~taken
    <3>1. h' = h /\ held' = held BY <1>5, <1>10, <2>2 DEF released, rowsLeft
    <3>2. Kept BY <3>1 DEF Kept
    <3>3. asked' = Asks(h.active, h.active, NoRow) BY <1>5, <1>10, <2>2
    <3>4. asked' # Asks(None, None, NoRow)
      <4>1. [on |-> h.active, layout |-> h.active, row |-> NoRow].on # None BY <2>2
      <4>2. [on |-> None, layout |-> None, row |-> NoRow].on = None OBVIOUS
      <4>3. QED BY <3>3, <4>1, <4>2 DEF Asks
    <3>5. QED BY <1>1, <1>10, <3>1, <3>2, <3>3, <3>4, FailStep
  <2>3. QED BY <2>1, <2>2
<1>11. my'.scan = my.scan /\ my'.stage = my.stage /\ DOMAIN my' = DOMAIN my
  BY <1>2 DEF Shape, Fails
<1>12. CASE h' = released(s, taken) /\ my' = [my EXCEPT !.row = NoRow, !.dup = NoRow]
            /\ held' = rowsLeft(s, taken) /\ asked' = Asks(s.active, s.writeFor, NoRow)
  <2>1. my'.row = NoRow /\ my'.dup = NoRow BY <1>12 DEF Shape
  <2>2. QED BY <1>8, <1>11, <1>12, <2>1
<1>13. CASE /\ h' = released(z, taken)
            /\ \E r \in Rows : my' = [my EXCEPT !.row = NoRow, !.dup = r]
            /\ held' = rowsLeft(s, taken) /\ asked' = Asks(s.active, s.writeFor, NoRow)
  <2>1. my'.row = NoRow BY <1>13 DEF Shape
  <2>2. QED BY <1>8, <1>11, <1>13, <2>1
<1>14. QED BY <1>2, <1>9, <1>10, <1>12, <1>13

-----------------------------------------------------------------------------
LEMMA NextInv == ASSUME IInv, Next PROVE IInv'
<1>1. CASE lockStatement BY <1>1, ExternalLock DEF lockStatement
<1>2. CASE lockTables BY <1>2, ExternalLock DEF lockTables
<1>3. CASE \E scan \in BOOLEAN : rnd_init(scan) BY <1>3, RndInit
<1>4. CASE \E i \in Indexes : index_init(i) BY <1>4, IndexInit
<1>5. CASE \/ \E p \in 1..(NRows + 1) : index_read(p, 1)
           \/ \E p \in 0..NRows : index_read(p, -1)
           \/ index_first \/ index_last
  BY <1>5, IndexRead DEF index_first, index_last
<1>6. CASE rnd_pos_Kept BY <1>6, RndPos DEF rnd_pos_Kept
<1>7. CASE rnd_pos_Dup BY <1>7, RndPos DEF rnd_pos_Dup
<1>8. CASE start_stmt \/ unlockStatement \/ unlockTables \/ reset
  BY <1>8, StartStmt, UnlockStatement, UnlockTables, Reset
<1>9. CASE index_next \/ index_prev \/ index_end \/ rnd_next \/ rnd_end \/ position
  BY <1>9, IndexNext, IndexEnd, RndNext, RndEnd, Position
<1>10. CASE write_row \/ update_row \/ delete_row BY <1>10, WriteRow, ChangeStep
<1>11. QED BY <1>1, <1>2, <1>3, <1>4, <1>5, <1>6, <1>7, <1>8, <1>9, <1>10 DEF Next

LEMMA StutterInv == ASSUME IInv, UNCHANGED vars PROVE IInv'
BY DEF IInv, vars, Shape, Allocated, Scanning, Changing, Locking, InUseExact, RequestsFit, Fit

(* The inductive invariant.                                                *)
LEMMA Inductive == Spec => []IInv
<1>1. Init => IInv BY InitInv
<1>2. IInv /\ [Next]_vars => IInv' BY NextInv, StutterInv
<1>3. QED BY <1>1, <1>2, PTL DEF Spec

(* DB2's in-use counter is one while an instance is active and zero else,  *)
(* for any indexes and wherever requests fail.                             *)
THEOREM InUseExactHolds == Spec => []InUseExact
<1>1. IInv => InUseExact BY DEF IInv
<1>2. QED BY <1>1, Inductive, PTL

(* Every request goes to an allocated instance, with a buffer laid out for *)
(* its file, where the instance that LOCK TABLES needs is granted.         *)
THEOREM RequestsFitHolds == ~LockMayFail => (Spec => []RequestsFit)
<1> SUFFICES ASSUME ~LockMayFail PROVE Spec => []RequestsFit OBVIOUS
<1>1. IInv => RequestsFit BY DEF IInv, Fit
<1>2. QED BY <1>1, Inductive, PTL

(* Row locks are the active instance's, known to the handler, and gone     *)
(* when the statement has been reset.                                      *)
THEOREM RowLocksAccountedHolds == Spec => []RowLocksAccounted
<1>1. IInv => RowLocksAccounted
  BY Names DEF IInv, Locking, RowLocksAccounted
<1>2. QED BY <1>1, Inductive, PTL

-----------------------------------------------------------------------------

(* The lock that LOCK TABLES took is of the handler's intent.              *)
LockKnown == ObjLockMatched /\ (lockedBy # None => lockedBy = h.intent)

(* What the lock on the table depends on.                                  *)
MyCore == /\ my'.stage = my.stage /\ my'.command = my.command /\ my'.unsafe = my.unsafe
          /\ DOMAIN my' = DOMAIN my
LockKept == objLock' = objLock /\ lockedBy' = lockedBy /\ h'.intent = h.intent /\ MyCore

LEMMA LockKeptInv == ASSUME LockKnown, LockKept PROVE LockKnown'
BY DEF LockKnown, ObjLockMatched, LockKept, MyCore, LocksTable

(* What using an instance, releasing it and laying out a buffer leave.     *)
Member(s) == {"open", "active", "refs", "index", "assoc", "release", "rrn",
              "rndOk", "intent", "readFor", "writeFor"} = DOMAIN s
Core(t, s) == /\ Member(s) => Member(t)
              /\ Member(s) => t.intent = s.intent /\ t.rrn = s.rrn /\ t.rndOk = s.rndOk

LEMMA CoreKept ==
  ASSUME NEW s, NEW f
  PROVE  /\ Core(useFile(s, f), s) /\ Core(useFileByHandle(s), s)
         /\ Core(releaseActiveHandle(s), s) /\ Core(releasedIfActive(s), s)
         /\ Core(prepReadBuffer(s, f), s) /\ Core(prepWriteBuffer(s, f), s)
         /\ Core(writeIfUpdatable(s, f), s) /\ Core(rnd_init_Data(s), s)
         /\ Core(switched(s), s) /\ Core(released(s, f), s)
         /\ Core([s EXCEPT !.assoc = f], s) /\ Core([s EXCEPT !.release = f], s)
         /\ Core([s EXCEPT !.index = f], s)
<1>1. /\ Core(useFile(s, f), s) /\ Core(useFileByHandle(s), s)
      /\ Core(releaseActiveHandle(s), s) /\ Core(prepReadBuffer(s, f), s)
      /\ Core(prepWriteBuffer(s, f), s) /\ Core([s EXCEPT !.assoc = f], s)
      /\ Core([s EXCEPT !.release = f], s) /\ Core([s EXCEPT !.index = f], s)
  BY DEF useFile, useFileByHandle, releaseActiveHandle, bumpInUseCounter, prepReadBuffer,
     prepWriteBuffer, Core, Member
<1>2. Core(s, s) BY DEF Core
<1>3. Core(releasedIfActive(s), s) /\ Core(writeIfUpdatable(s, f), s)
  BY <1>1, <1>2 DEF releasedIfActive, writeIfUpdatable
<1>4. Core(released(s, f), s) BY <1>1, <1>2 DEF released
<1>5. Core(rnd_init_Data(s), s)
  BY <1>2 DEF useFile, bumpInUseCounter, rnd_init_Data, Core, Member
<1>6. Core(switched(s), s)
  BY <1>2 DEF useFileByHandle, releaseActiveHandle, releasedIfActive, bumpInUseCounter, switched, Core, Member
<1>7. QED BY <1>1, <1>2, <1>3, <1>4, <1>5, <1>6

LEMMA CoreTrans == ASSUME NEW s, NEW t, NEW u, Core(s, t), Core(t, u) PROVE Core(s, u)
BY DEF Core

LEMMA MyFails == ASSUME Shape, Fails PROVE MyCore
BY DEF Shape, Fails, MyCore

LEMMA DeliversKeeps ==
  ASSUME Shape, NEW s, NEW b, NEW scan, Core(s, h), Delivers(s, b, scan)
  PROVE  h'.intent = h.intent /\ MyCore
<1>1. h' = s \/ h' = [s EXCEPT !.rrn = nextRow(b), !.assoc = s.active] BY DEF Delivers
<1>2. h'.intent = h.intent BY <1>1 DEF Core, Shape, Member
<1>3. \/ my' = [my EXCEPT !.row = b.rows[b.cursor + 1], !.scan = [scan EXCEPT !.pos = @ + scan.dir]]
      \/ my' = [my EXCEPT !.row = NoRow, !.scan = [scan EXCEPT !.ended = TRUE]]
  BY DEF Delivers
<1>4. MyCore BY <1>3 DEF Shape, MyCore
<1>5. QED BY <1>2, <1>4

LEMMA ReadsKeepLock ==
  ASSUME IInv, \/ \E p, d : index_read(p, d)
               \/ index_next \/ index_prev \/ rnd_next
  PROVE  LockKept
<1>1. objLock' = objLock /\ lockedBy' = lockedBy
  BY DEF index_read, index_next, index_prev, rnd_next
<1>2. Shape BY DEF IInv
<1>3. ASSUME NEW p, NEW d, index_read(p, d) PROVE h'.intent = h.intent /\ MyCore
  <2>1. CASE Fails /\ UNCHANGED <<h, buf, at, held>> BY <2>1, <1>2, MyFails
  <2>2. CASE doInitialRead(prepReadBuffer(h, h.index), p, d)
    <3> DEFINE s == prepReadBuffer(h, h.index)
               b == newReadRequest(s.active, p, d)
               t == [s EXCEPT !.release = ~b.ended]
    <3>1. PICK scan : Delivers(t, b, scan) BY <2>2 DEF doInitialRead
    <3>2. Core(s, h) /\ Core(t, s) BY CoreKept
    <3> HIDE DEF b, t, s
    <3>3. Core(t, h) BY <3>2, CoreTrans
    <3>4. QED BY <1>2, <3>1, <3>3, DeliversKeeps
  <2>3. QED BY <1>3, <2>1, <2>2 DEF index_read
<1>4. ASSUME NEW d, readFromBuffer(d) PROVE h'.intent = h.intent /\ MyCore
  <2>1. Core(h, h) BY DEF Core
  <2>2. PICK s, b : Delivers(s, b, my.scan) /\ (s = h \/ s = [h EXCEPT !.release = ~b.ended])
    BY <1>4 DEF readFromBuffer
  <2>3. Core(s, h) BY <2>1, <2>2, CoreKept, ZenonT(60)
  <2>4. QED BY <1>2, <2>2, <2>3, DeliversKeeps
<1>5. CASE rnd_next /\ ~h.rndOk
  <2>1. my' = [my EXCEPT !.failed = TRUE] /\ h' = h BY <1>5 DEF rnd_next
  <2>2. QED BY <1>1, <1>2, <2>1 DEF LockKept, MyCore, Shape
<1>6. QED BY <1>1, <1>3, <1>4, <1>5 DEF LockKept, index_next, index_prev, rnd_next

(* Scans begin and end.                                                    *)
LEMMA ScansKeepLock ==
  ASSUME IInv, (\E i \in Indexes : index_init(i)) \/ index_end
               \/ (\E scan \in BOOLEAN : rnd_init(scan)) \/ rnd_end
  PROVE  LockKept
<1>1. objLock' = objLock /\ lockedBy' = lockedBy
  BY DEF index_init, index_end, rnd_init, rnd_end
<1>2. Shape BY DEF IInv
<1>3. Core(h', h) => h'.intent = h.intent BY <1>2 DEF Core, Shape, Member
<1>4. ASSUME NEW i \in Indexes, index_init(i) PROVE LockKept
  <2> DEFINE q == releasedIfActive(h)
             r1 == [q EXCEPT !.index = i]
             r == [r1 EXCEPT !.assoc = None]
             u == useFile(r, i)
             w == writeIfUpdatable(u, i)
             z == releaseActiveHandle(u)
  <2>1. Core(q, h) /\ Core(r1, q) /\ Core(r, r1) /\ Core(u, r) /\ Core(w, u) /\ Core(z, u)
    BY CoreKept
  <2>2. \/ h' = w /\ my' = [my EXCEPT !.scan.on = i, !.row = NoRow, !.dup = NoRow]
        \/ h' = r /\ Fails
        \/ h' = z /\ Fails
    BY <1>4 DEF index_init
  <2> HIDE DEF q, r1, r, u, w, z
  <2>3. Core(r, h) BY <2>1, CoreTrans
  <2>4. Core(u, h) BY <2>1, <2>3, CoreTrans
  <2>5. Core(w, h) /\ Core(z, h) BY <2>1, <2>4, CoreTrans
  <2>6. h'.intent = h.intent BY <1>3, <2>2, <2>3, <2>5
  <2>7. MyCore
    <3>1. CASE my' = [my EXCEPT !.scan.on = i, !.row = NoRow, !.dup = NoRow]
      BY <1>2, <3>1 DEF Shape, MyCore
    <3>2. QED BY <1>2, <2>2, <3>1, MyFails
  <2>8. QED BY <1>1, <2>6, <2>7 DEF LockKept
<1>5. ASSUME NEW scan \in BOOLEAN, rnd_init(scan) PROVE LockKept
  <2> DEFINE r == [h EXCEPT !.assoc = None]
             u == rnd_init_Data(r)
             s == prepReadBuffer(u, Data)
             w == writeIfUpdatable(s, Data)
             z == releaseActiveHandle(u)
             b == newReadRequest(Data, 1, 1)
             x == [w EXCEPT !.release = ~b.ended]
             begun == [NoScan EXCEPT !.on = Data, !.dir = IF scan THEN 1 ELSE 0]
  <2>1. Core(r, h) /\ Core(u, r) /\ Core(s, u) /\ Core(w, s) /\ Core(z, u) /\ Core(x, w)
    BY CoreKept
  <2>2. /\ my' = [my EXCEPT !.scan = begun, !.row = NoRow, !.dup = NoRow]
        /\ \/ h' = w \/ h' = x \/ h' = [r EXCEPT !.rndOk = FALSE] \/ h' = [z EXCEPT !.rndOk = FALSE]
    BY <1>5 DEF rnd_init
  <2> HIDE DEF r, u, s, w, z, b, x
  <2>3. Core(u, h) BY <2>1, CoreTrans
  <2>4. Core(s, h) /\ Core(z, h) BY <2>1, <2>3, CoreTrans
  <2>5. Core(w, h) BY <2>1, <2>4, CoreTrans
  <2>6. Core(x, h) BY <2>1, <2>5, CoreTrans
  <2>7. h'.intent = h.intent BY <1>2, <2>1, <2>2, <2>4, <2>5, <2>6 DEF Core, Shape, Member
  <2>8. MyCore
    <3> HIDE DEF begun
    <3>1. QED BY <1>2, <2>2 DEF Shape, MyCore
  <2>9. QED BY <1>1, <2>7, <2>8 DEF LockKept
<1>6. CASE index_end \/ rnd_end
  <2> DEFINE z == releaseActiveHandle(h)
  <2>1. Core(z, h) BY CoreKept
  <2>2. /\ my' = [my EXCEPT !.scan = NoScan]
        /\ \/ h' = [z EXCEPT !.index = None] \/ h' = z \/ h' = [h EXCEPT !.rndOk = TRUE]
    BY <1>6 DEF index_end, rnd_end
  <2> HIDE DEF z
  <2>3. h'.intent = h.intent BY <1>2, <2>1, <2>2 DEF Core, Shape, Member
  <2>4. MyCore BY <1>2, <2>2 DEF Shape, MyCore
  <2>5. QED BY <1>1, <2>3, <2>4 DEF LockKept
<1>7. QED BY <1>4, <1>5, <1>6

(* Positioned reads and changes.                                           *)
LEMMA RndPosKeepsLock ==
  ASSUME IInv, NEW pos, NEW row, rnd_pos(pos, row)
  PROVE  h'.intent = h.intent /\ MyCore
<1>1. Shape BY DEF IInv
<1>2. CASE ~h.rndOk
  <2>1. my' = [my EXCEPT !.failed = TRUE] /\ h' = h BY <1>2 DEF rnd_pos
  <2>2. QED BY <1>1, <2>1 DEF MyCore, Shape
<1>3. CASE h.rndOk
  <2> DEFINE r == [h EXCEPT !.rrn = pos]
             u == switched(r)
             f == IF u.active = None THEN Data ELSE u.active
             s == prepReadBuffer(u, f)
             w == writeIfUpdatable(s, f)
             x == [w EXCEPT !.assoc = w.active]
             y == [x EXCEPT !.release = TRUE]
             z == releasedIfActive(r)
  <2>1. \/ h' = [w EXCEPT !.assoc = w.active, !.release = TRUE] /\ my' = [my EXCEPT !.row = row]
        \/ h' = w /\ Fails
        \/ h' = [z EXCEPT !.rrn = pos] /\ Fails
    BY <1>3 DEF rnd_pos
  <2>2. Member(r) /\ r.intent = h.intent BY <1>1 DEF Shape, Member
  <2>3. Core(u, r) /\ Core(s, u) /\ Core(w, s) /\ Core(x, w) /\ Core(y, x) /\ Core(z, r)
    BY CoreKept
  <2> HIDE DEF r, u, f, s, w, z
  <2>4. Core(s, r) BY <2>3, CoreTrans
  <2>5. Core(w, r) BY <2>3, <2>4, CoreTrans
  <2>6. Core(y, r) BY <2>3, <2>5, CoreTrans
  <2>7. y = [w EXCEPT !.assoc = w.active, !.release = TRUE] OBVIOUS
  <2> HIDE DEF x, y
  <2>8. h'.intent = h.intent BY <2>1, <2>2, <2>3, <2>5, <2>6, <2>7 DEF Core, Member
  <2>9. MyCore
    <3>1. CASE my' = [my EXCEPT !.row = row] BY <1>1, <3>1 DEF Shape, MyCore
    <3>2. QED BY <1>1, <2>1, <3>1, MyFails
  <2>10. QED BY <2>8, <2>9
<1>4. QED BY <1>2, <1>3

LEMMA ChangesKeepLock ==
  ASSUME IInv, position \/ rnd_pos_Kept \/ rnd_pos_Dup \/ write_row \/ update_row \/ delete_row
  PROVE  LockKept
<1>1. objLock' = objLock /\ lockedBy' = lockedBy
  BY DEF position, rnd_pos_Kept, rnd_pos_Dup, write_row, update_row, delete_row
<1>2. Shape BY DEF IInv
<1>3. CASE rnd_pos_Kept \/ rnd_pos_Dup
  BY <1>1, <1>3, RndPosKeepsLock DEF rnd_pos_Kept, rnd_pos_Dup, LockKept
<1>4. CASE position
  <2>1. h' = h /\ my' = [my EXCEPT !.kept = [pos |-> positionOf(h), row |-> my.row]]
    BY <1>4 DEF position
  <2>2. MyCore BY <1>2, <2>1 DEF Shape, MyCore
  <2>3. QED BY <1>1, <2>1, <2>2 DEF LockKept
<1>5. CASE write_row
  <2> DEFINE taken == h.active = None
             u == IF taken THEN useFile(h, Data) ELSE h
             s == prepWriteBuffer(u, u.active)
             z == [s EXCEPT !.assoc = s.active]
  <2>1. Core(u, h) BY CoreKept DEF Core
  <2>2. Core(s, u) /\ Core(z, s) /\ Core(released(s, taken), s) /\ Core(released(z, taken), z)
        /\ Core(released(u, taken), u)
    BY CoreKept
  <2>3. /\ h' = h \/ h' = released(s, taken) \/ h' = released(z, taken) \/ h' = released(u, taken)
        /\ \/ my' = [my EXCEPT !.row = NoRow, !.dup = NoRow] \/ Fails
           \/ \E r \in Rows : my' = [my EXCEPT !.row = NoRow, !.dup = r]
    BY <1>5 DEF write_row
  <2> HIDE DEF taken, u, s, z
  <2>4. Core(s, h) BY <2>1, <2>2, CoreTrans
  <2>5. Core(z, h) BY <2>2, <2>4, CoreTrans
  <2>6. Core(released(s, taken), h) /\ Core(released(z, taken), h) /\ Core(released(u, taken), h)
    BY <2>1, <2>2, <2>4, <2>5, CoreTrans
  <2>7. h'.intent = h.intent BY <1>2, <2>3, <2>6 DEF Core, Shape, Member
  <2>8. MyCore
    <3>1. CASE my' = [my EXCEPT !.row = NoRow, !.dup = NoRow] BY <1>2, <3>1 DEF Shape, MyCore
    <3>2. CASE \E r \in Rows : my' = [my EXCEPT !.row = NoRow, !.dup = r]
      BY <1>2, <3>2 DEF Shape, MyCore
    <3>3. QED BY <1>2, <2>3, <3>1, <3>2, MyFails
  <2>9. QED BY <1>1, <2>7, <2>8 DEF LockKept
<1>6. CASE update_row \/ delete_row
  <2> DEFINE taken == h.active = None
             s == IF taken THEN useFileByHandle(h) ELSE h
             z == [s EXCEPT !.assoc = s.active]
  <2>1. Core(s, h) BY CoreKept DEF Core
  <2>2. Core(z, s) /\ Core(released(s, taken), s) /\ Core(released(z, taken), z)
    BY CoreKept
  <2>3. /\ h' = h \/ h' = released(s, taken) \/ h' = released(z, taken)
        /\ my' = my \/ Fails
    BY <1>6 DEF update_row, delete_row
  <2> HIDE DEF taken, s, z
  <2>4. Core(z, h) /\ Core(released(s, taken), h) BY <2>1, <2>2, CoreTrans
  <2>5. Core(released(z, taken), h) BY <2>2, <2>4, CoreTrans
  <2>6. h'.intent = h.intent BY <1>2, <2>3, <2>4, <2>5 DEF Core, Shape, Member
  <2>7. MyCore BY <1>2, <2>3, MyFails DEF MyCore
  <2>8. QED BY <1>1, <2>6, <2>7 DEF LockKept
<1>7. QED BY <1>3, <1>4, <1>5, <1>6

(* The locks of statements and of LOCK TABLES.                             *)
LEMMA LockTaken ==
  ASSUME IInv, LockKnown, ~LockMayFail, NEW command, NEW intent \in {"read", "update"},
         NEW u \in BOOLEAN, external_lock(command, intent, u)
  PROVE  LockKnown'
<1>1. my.stage = "idle" /\ lockedBy = None /\ my = Idle BY DEF external_lock, IInv, Locking
<1>2. objLock = {} BY <1>1 DEF LockKnown, ObjLockMatched
<1>3. /\ h'.intent = intent
      /\ objLock' = IF LocksTable(command, intent, u) THEN {intent} ELSE {}
  <2>1. CASE LocksTable(command, intent, u)
    <3>1. h' = instanceForLock([h EXCEPT !.intent = intent]) /\ objLock' = {intent}
      BY <1>2, <2>1 DEF external_lock
    <3>2. QED BY <2>1, <3>1 DEF instanceForLock, IInv, Shape
  <2>2. CASE ~LocksTable(command, intent, u)
    <3>1. h' = [h EXCEPT !.intent = intent] /\ objLock' = objLock BY <2>2 DEF external_lock
    <3>2. QED BY <1>2, <2>2, <3>1 DEF IInv, Shape
  <2>3. QED BY <2>1, <2>2
<1>4. intent # None BY DEF None
<1>5. CASE command = "lock_tables"
  <2>1. lockedBy' = intent BY <1>5 DEF external_lock
  <2>2. objLock' = {intent} BY <1>3, <1>5 DEF LocksTable
  <2>3. QED BY <1>3, <1>4, <2>1, <2>2 DEF LockKnown, ObjLockMatched
<1>6. CASE command # "lock_tables"
  <2>1. lockedBy' = None /\ my' = [my EXCEPT !.stage = "open", !.command = command, !.unsafe = u]
    BY <1>6 DEF external_lock
  <2>2. my'.stage = "open" /\ my'.command = command /\ my'.unsafe = u
    BY <2>1 DEF IInv, Shape
  <2>3. QED BY <1>3, <2>1, <2>2 DEF LockKnown, ObjLockMatched
<1>7. QED BY <1>5, <1>6

LEMMA LocksKnown ==
  ASSUME IInv, LockKnown, ~LockMayFail, UnlockedBy = {"unlock_tables"},
         lockStatement \/ lockTables \/ start_stmt \/ unlockStatement \/ unlockTables \/ reset
  PROVE  LockKnown'
<1>1. CASE lockStatement \/ lockTables
  <2>1. CASE lockStatement BY <2>1, LockTaken DEF lockStatement
  <2>2. CASE lockTables
    <3>1. PICK i \in {"read", "update"} : external_lock("lock_tables", i, FALSE)
      BY <2>2 DEF lockTables
    <3>2. FALSE \in BOOLEAN OBVIOUS
    <3>3. QED BY <3>1, <3>2, LockTaken
  <2>3. QED BY <1>1, <2>1, <2>2
<1>2. CASE start_stmt
  BY <1>2 DEF start_stmt, LockKnown, ObjLockMatched
<1>3. CASE unlockStatement
  <2>1. /\ my.stage = "open" /\ lockedBy = None /\ lockedBy' = lockedBy
        /\ my' = [Idle EXCEPT !.stage = "unlocked"] /\ external_unlock(my.command, my.unsafe)
    BY <1>3 DEF unlockStatement
  <2>2. objLock' = {} BY <2>1 DEF external_unlock, LockKnown, ObjLockMatched
  <2>3. my'.stage = "unlocked" BY <2>1 DEF Idle
  <2>4. QED BY <2>1, <2>2, <2>3 DEF LockKnown, ObjLockMatched
<1>4. CASE unlockTables
  <2>1. /\ my.stage = "idle" /\ lockedBy # None /\ lockedBy' = None /\ my' = my
        /\ external_unlock("unlock_tables", FALSE)
    BY <1>4 DEF unlockTables
  <2>2. objLock' = {} BY <2>1 DEF external_unlock, LocksTable, LockKnown, ObjLockMatched
  <2>3. QED BY <2>1, <2>2 DEF LockKnown, ObjLockMatched
<1>5. CASE reset
  <2>1. Core(releasedIfActive(h), h) BY CoreKept
  <2>2. /\ h' = [releasedIfActive(h) EXCEPT !.rndOk = TRUE] /\ my' = Idle
        /\ my.stage = (IF lockedBy = None THEN "unlocked" ELSE "open")
        /\ objLock' = objLock /\ lockedBy' = lockedBy
    BY <1>5 DEF reset
  <2>3. h'.intent = h.intent BY <2>1, <2>2 DEF Core, IInv, Shape, Member
  <2>4. my'.stage = "idle" BY <2>2 DEF Idle
  <2>5. QED BY <2>2, <2>3, <2>4 DEF LockKnown, ObjLockMatched
<1>6. QED BY <1>1, <1>2, <1>3, <1>4, <1>5

(* DB2 holds the lock on the table that LOCK TABLES or an update without   *)
(* transaction took, and no other, where the instance that it needs is     *)
(* granted and LOCK TABLES ends with UNLOCK TABLES (external_lock).        *)
THEOREM ObjLockAlwaysMatched ==
  ASSUME ~LockMayFail, UnlockedBy = {"unlock_tables"}
  PROVE  Spec => []ObjLockMatched
<1>1. Init => LockKnown BY DEF Init, LockKnown, ObjLockMatched, Idle
<1>2. ASSUME IInv, LockKnown, [Next]_vars PROVE LockKnown'
  <2>1. CASE lockStatement \/ lockTables \/ start_stmt \/ unlockStatement \/ unlockTables \/ reset
    BY <1>2, <2>1, LocksKnown
  <2>2. CASE (\E p \in 1..(NRows + 1) : index_read(p, 1)) \/ (\E p \in 0..NRows : index_read(p, -1))
             \/ index_first \/ index_last \/ index_next \/ index_prev \/ rnd_next
    BY <1>2, <2>2, ReadsKeepLock, LockKeptInv DEF index_first, index_last
  <2>3. CASE (\E i \in Indexes : index_init(i)) \/ index_end
             \/ (\E scan \in BOOLEAN : rnd_init(scan)) \/ rnd_end
    BY <1>2, <2>3, ScansKeepLock, LockKeptInv
  <2>4. CASE position \/ rnd_pos_Kept \/ rnd_pos_Dup \/ write_row \/ update_row \/ delete_row
    BY <1>2, <2>4, ChangesKeepLock, LockKeptInv
  <2>5. CASE UNCHANGED vars
    BY <1>2, <2>5 DEF vars, LockKnown, ObjLockMatched
  <2>6. QED BY <1>2, <2>1, <2>2, <2>3, <2>4, <2>5 DEF Next
<1>3. LockKnown => ObjLockMatched BY DEF LockKnown
<1>4. QED BY <1>1, <1>2, <1>3, Inductive, PTL DEF Spec

-----------------------------------------------------------------------------

(* The handler's number is that of the row in MySQL's record buffer, and a *)
(* position that MySQL keeps is that of the row it was kept for.           *)
RowKnown ==
  /\ my.row # NoRow /\ ~my.failed => h.rrn = my.row
  /\ my.kept.pos = my.kept.row
  /\ RightRow

(* Which row is read, kept and asked for.                                  *)
NoneNamed == \A q \in asked' : q.row = NoRow
RowSame == my'.row = my.row /\ my'.kept = my.kept /\ my'.failed = my.failed /\ h'.rrn = h.rrn

LEMMA NamesNone ==
  ASSUME NEW f, NEW l, asked' = {} \/ asked' = Asks(f, l, NoRow) PROVE NoneNamed
BY DEF NoneNamed, Asks

LEMMA RowGone ==
  ASSUME RowKnown, NoneNamed, my'.kept = my.kept,
         my'.failed \/ my'.row = NoRow \/ my'.row = h'.rrn
  PROVE  RowKnown'
BY DEF RowKnown, NoneNamed, RightRow

LEMMA RowStays == ASSUME RowKnown, NoneNamed, RowSame PROVE RowKnown'
BY DEF RowKnown, NoneNamed, RightRow, RowSame

LEMMA FailsRow == ASSUME Shape, Fails PROVE my'.failed /\ my'.kept = my.kept /\ my'.scan = my.scan /\ my'.row = my.row
BY DEF Shape, Fails

LEMMA DeliversRow ==
  ASSUME Shape, NEW s, NEW b, NEW scan, Core(s, h), Delivers(s, b, scan)
  PROVE  /\ my'.row = NoRow \/ my'.row = h'.rrn
         /\ my'.kept = my.kept
<1>1. CASE b.cursor < Len(b.rows)
  <2>1. /\ h' = [s EXCEPT !.rrn = nextRow(b), !.assoc = s.active]
        /\ my' = [my EXCEPT !.row = b.rows[b.cursor + 1],
                            !.scan = [scan EXCEPT !.pos = @ + scan.dir]]
    BY <1>1 DEF Delivers
  <2>2. h'.rrn = b.rows[b.cursor + 1] BY <2>1 DEF Core, Shape, Member, nextRow
  <2>3. my'.row = b.rows[b.cursor + 1] /\ my'.kept = my.kept BY <2>1 DEF Shape
  <2>4. QED BY <2>2, <2>3
<1>2. CASE ~(b.cursor < Len(b.rows))
  <2>1. my' = [my EXCEPT !.row = NoRow, !.scan = [scan EXCEPT !.ended = TRUE]]
    BY <1>2 DEF Delivers
  <2>2. QED BY <2>1 DEF Shape
<1>3. QED BY <1>1, <1>2

LEMMA ReadsKnowRow ==
  ASSUME IInv, RowKnown, \/ \E p, d : index_read(p, d)
               \/ index_next \/ index_prev \/ rnd_next
  PROVE  RowKnown'
<1>1. Shape BY DEF IInv
<1>2. ASSUME NEW p, NEW d, index_read(p, d) PROVE RowKnown'
  <2>1. CASE Fails /\ UNCHANGED <<h, buf, at, held>> /\ asked' = Asks(h.active, h.active, NoRow)
    BY <2>1, <1>1, FailsRow, NamesNone, RowGone
  <2>2. CASE doInitialRead(prepReadBuffer(h, h.index), p, d)
    <3> DEFINE s == prepReadBuffer(h, h.index)
               b == newReadRequest(s.active, p, d)
               t == [s EXCEPT !.release = ~b.ended]
    <3>1. PICK scan : Delivers(t, b, scan) BY <2>2 DEF doInitialRead
    <3>2. Core(s, h) /\ Core(t, s) BY CoreKept
    <3>3. asked' = Asks(s.active, s.readFor, NoRow) BY <2>2 DEF doInitialRead
    <3> HIDE DEF b, t, s
    <3>4. Core(t, h) BY <3>2, CoreTrans
    <3>5. QED BY <1>1, <3>1, <3>3, <3>4, DeliversRow, NamesNone, RowGone
  <2>3. QED BY <1>2, <2>1, <2>2 DEF index_read
<1>3. ASSUME NEW d, readFromBuffer(d) PROVE RowKnown'
  <2>1. Core(h, h) BY DEF Core
  <2>2. PICK s, b : Delivers(s, b, my.scan) /\ (s = h \/ s = [h EXCEPT !.release = ~b.ended])
                    /\ (asked' = {} \/ asked' = Asks(h.active, h.readFor, NoRow))
    BY <1>3 DEF readFromBuffer
  <2>3. Core(s, h) BY <2>1, <2>2, CoreKept, ZenonT(60)
  <2>4. QED BY <1>1, <2>2, <2>3, DeliversRow, NamesNone, RowGone
<1>4. CASE rnd_next /\ ~h.rndOk
  <2>1. my' = [my EXCEPT !.failed = TRUE] /\ asked' = {} BY <1>4 DEF rnd_next
  <2>2. my'.failed /\ my'.kept = my.kept BY <1>1, <2>1 DEF Shape
  <2>3. QED BY <2>1, <2>2, NamesNone, RowGone
<1>5. QED BY <1>2, <1>3, <1>4 DEF index_next, index_prev, rnd_next

LEMMA ScansKnowRow ==
  ASSUME IInv, RowKnown, (\E i \in Indexes : index_init(i)) \/ index_end
               \/ (\E scan \in BOOLEAN : rnd_init(scan)) \/ rnd_end
  PROVE  RowKnown'
<1>1. Shape BY DEF IInv
<1>2. ASSUME NEW i \in Indexes, index_init(i) PROVE RowKnown'
  <2>1. /\ asked' = {} \/ asked' = Asks(i, i, NoRow)
        /\ my' = [my EXCEPT !.scan.on = i, !.row = NoRow, !.dup = NoRow] \/ Fails
    BY <1>2 DEF index_init
  <2>2. CASE my' = [my EXCEPT !.scan.on = i, !.row = NoRow, !.dup = NoRow]
    <3>1. my'.row = NoRow /\ my'.kept = my.kept BY <1>1, <2>2 DEF Shape
    <3>2. QED BY <2>1, <3>1, NamesNone, RowGone
  <2>3. CASE Fails BY <1>1, <2>1, <2>3, FailsRow, NamesNone, RowGone
  <2>4. QED BY <2>1, <2>2, <2>3
<1>3. ASSUME NEW scan \in BOOLEAN, rnd_init(scan) PROVE RowKnown'
  <2> DEFINE begun == [NoScan EXCEPT !.on = Data, !.dir = IF scan THEN 1 ELSE 0]
  <2>1. /\ asked' = {} \/ asked' = Asks(Data, Data, NoRow)
        /\ my' = [my EXCEPT !.scan = begun, !.row = NoRow, !.dup = NoRow]
    BY <1>3 DEF rnd_init
  <2> HIDE DEF begun
  <2>2. my'.row = NoRow /\ my'.kept = my.kept BY <1>1, <2>1 DEF Shape
  <2>3. QED BY <2>1, <2>2, NamesNone, RowGone
<1>4. CASE index_end \/ rnd_end
  <2> DEFINE z == releaseActiveHandle(h)
  <2>1. Core(z, h) BY CoreKept
  <2>2. /\ my' = [my EXCEPT !.scan = NoScan] /\ asked' = {}
        /\ \/ h' = [z EXCEPT !.index = None] \/ h' = z \/ h' = [h EXCEPT !.rndOk = TRUE]
    BY <1>4 DEF index_end, rnd_end
  <2> HIDE DEF z
  <2>3. h'.rrn = h.rrn BY <1>1, <2>1, <2>2 DEF Core, Shape, Member
  <2>4. my'.row = my.row /\ my'.kept = my.kept /\ my'.failed = my.failed
    BY <1>1, <2>2 DEF Shape
  <2>5. QED BY <2>2, <2>3, <2>4, NamesNone, RowStays DEF RowSame
<1>5. QED BY <1>2, <1>3, <1>4

(* A positioned read of a row that is known by the number it is read by.   *)
LEMMA RndPosKnowsRow ==
  ASSUME IInv, RowKnown, NEW row, rnd_pos(row, row)
  PROVE  RowKnown'
<1>1. Shape BY DEF IInv
<1>2. CASE ~h.rndOk
  <2>1. my' = [my EXCEPT !.failed = TRUE] /\ asked' = {} BY <1>2 DEF rnd_pos
  <2>2. my'.failed /\ my'.kept = my.kept BY <1>1, <2>1 DEF Shape
  <2>3. QED BY <2>1, <2>2, NamesNone, RowGone
<1>3. CASE h.rndOk
  <2> DEFINE r == [h EXCEPT !.rrn = row]
             u == switched(r)
             f == IF u.active = None THEN Data ELSE u.active
             s == prepReadBuffer(u, f)
             w == writeIfUpdatable(s, f)
             x == [w EXCEPT !.assoc = w.active]
             y == [x EXCEPT !.release = TRUE]
  <2>1. \/ /\ h' = [w EXCEPT !.assoc = w.active, !.release = TRUE]
           /\ my' = [my EXCEPT !.row = row] /\ asked' = Asks(w.active, w.readFor, w.rrn)
        \/ /\ Fails /\ \/ asked' = Asks(w.active, w.readFor, NoRow)
                       \/ asked' = Asks(r.assoc, r.assoc, NoRow)
    BY <1>3 DEF rnd_pos
  <2>2. Member(r) /\ r.rrn = row BY <1>1 DEF Shape, Member
  <2>3. Core(u, r) /\ Core(s, u) /\ Core(w, s) /\ Core(x, w) /\ Core(y, x)
    BY CoreKept
  <2> HIDE DEF r, u, f, s, w
  <2>4. Core(s, r) BY <2>3, CoreTrans
  <2>5. Core(w, r) BY <2>3, <2>4, CoreTrans
  <2>6. Core(y, r) BY <2>3, <2>5, CoreTrans
  <2>7. y = [w EXCEPT !.assoc = w.active, !.release = TRUE] OBVIOUS
  <2> HIDE DEF x, y
  <2>8. w.rrn = row /\ y.rrn = row BY <2>2, <2>5, <2>6 DEF Core
  <2>9. CASE /\ Fails
             /\ asked' = Asks(w.active, w.readFor, NoRow) \/ asked' = Asks(r.assoc, r.assoc, NoRow)
    BY <1>1, <2>9, FailsRow, NamesNone, RowGone
  <2>10. CASE h' = y /\ my' = [my EXCEPT !.row = row] /\ asked' = Asks(w.active, w.readFor, w.rrn)
    <3>1. my'.row = row /\ my'.kept = my.kept BY <1>1, <2>10 DEF Shape
    <3>2. \A q \in asked' : q.row = row BY <2>8, <2>10 DEF Asks
    <3>3. QED BY <2>8, <2>10, <3>1, <3>2 DEF RowKnown, RightRow
  <2>11. QED BY <2>1, <2>7, <2>9, <2>10
<1>4. QED BY <1>2, <1>3

LEMMA ChangesKnowRow ==
  ASSUME IInv, RowKnown,
         position \/ rnd_pos_Kept \/ rnd_pos_Dup \/ write_row \/ update_row \/ delete_row
  PROVE  RowKnown'
<1>1. Shape BY DEF IInv
<1>2. CASE rnd_pos_Kept
  BY <1>2, RndPosKnowsRow DEF rnd_pos_Kept, RowKnown
<1>3. CASE rnd_pos_Dup BY <1>3, RndPosKnowsRow DEF rnd_pos_Dup
<1>4. CASE position
  <2>1. h' = h /\ my' = [my EXCEPT !.kept = [pos |-> h.rrn, row |-> my.row]]
        /\ asked' = {} /\ my.row # NoRow /\ ~my.failed
    BY <1>4 DEF position, positionOf, Calls
  <2>2. my'.kept = [pos |-> h.rrn, row |-> my.row] /\ my'.row = my.row /\ my'.failed = my.failed
    BY <1>1, <2>1 DEF Shape
  <2>3. QED BY <2>1, <2>2 DEF RowKnown, RightRow
<1>5. CASE write_row
  <2> DEFINE taken == h.active = None
             u == IF taken THEN useFile(h, Data) ELSE h
             s == prepWriteBuffer(u, u.active)
  <2>1. /\ \/ my' = [my EXCEPT !.row = NoRow, !.dup = NoRow] \/ Fails
           \/ \E r \in Rows : my' = [my EXCEPT !.row = NoRow, !.dup = r]
        /\ \/ asked' = {} \/ asked' = Asks(s.active, s.writeFor, NoRow)
           \/ asked' = Asks(u.active, u.active, NoRow)
    BY <1>5 DEF write_row
  <2> HIDE DEF u, s
  <2>2. NoneNamed BY <2>1, NamesNone
  <2>3. my'.failed \/ my'.row = NoRow
    <3>1. CASE my' = [my EXCEPT !.row = NoRow, !.dup = NoRow] BY <1>1, <3>1 DEF Shape
    <3>2. CASE \E r \in Rows : my' = [my EXCEPT !.row = NoRow, !.dup = r] BY <1>1, <3>2 DEF Shape
    <3>3. QED BY <1>1, <2>1, <3>1, <3>2, FailsRow
  <2>4. my'.kept = my.kept
    <3>1. CASE my' = [my EXCEPT !.row = NoRow, !.dup = NoRow] BY <1>1, <3>1 DEF Shape
    <3>2. CASE \E r \in Rows : my' = [my EXCEPT !.row = NoRow, !.dup = r] BY <1>1, <3>2 DEF Shape
    <3>3. QED BY <1>1, <2>1, <3>1, <3>2, FailsRow
  <2>5. QED BY <2>2, <2>3, <2>4, RowGone
<1>6. CASE update_row \/ delete_row
  <2> DEFINE taken == h.active = None
             s == IF taken THEN useFileByHandle(h) ELSE h
             z == [s EXCEPT !.assoc = s.active]
  <2>1. Core(s, h) BY CoreKept DEF Core
  <2>2. Core(z, s) /\ Core(released(s, taken), s) /\ Core(released(z, taken), z)
    BY CoreKept
  <2>3. /\ my.row # NoRow /\ ~my.failed
        /\ \/ /\ h' = released(s, taken) \/ h' = released(z, taken)
              /\ my' = my
              /\ asked' = Asks(s.active, s.writeFor, s.rrn) \/ asked' = Asks(s.active, s.active, s.rrn)
           \/ Fails /\ asked' = Asks(h.assoc, h.assoc, NoRow)
    BY <1>6 DEF update_row, delete_row, Calls
  <2> HIDE DEF taken, s, z
  <2>4. Core(z, h) /\ Core(released(s, taken), h) BY <2>1, <2>2, CoreTrans
  <2>5. Core(released(z, taken), h) BY <2>2, <2>4, CoreTrans
  <2>6. CASE Fails /\ asked' = Asks(h.assoc, h.assoc, NoRow)
    BY <1>1, <2>6, FailsRow, NamesNone, RowGone
  <2>7. CASE /\ h' = released(s, taken) \/ h' = released(z, taken)
             /\ my' = my
             /\ asked' = Asks(s.active, s.writeFor, s.rrn) \/ asked' = Asks(s.active, s.active, s.rrn)
    <3>1. Member(h) BY <1>1 DEF Shape, Member
    <3>2. h'.rrn = h.rrn BY <2>4, <2>5, <2>7, <3>1 DEF Core
    <3>3. s.rrn = h.rrn BY <2>1, <3>1 DEF Core
    <3>4. \A q \in asked' : q.row = h.rrn BY <2>7, <3>3 DEF Asks
    <3>5. QED BY <2>3, <2>7, <3>2, <3>4 DEF RowKnown, RightRow
  <2>8. QED BY <2>3, <2>6, <2>7
<1>7. QED BY <1>2, <1>3, <1>4, <1>5, <1>6

LEMMA LocksKnowRow ==
  ASSUME IInv, RowKnown,
         lockStatement \/ lockTables \/ start_stmt \/ unlockStatement \/ unlockTables \/ reset
  PROVE  RowKnown'
<1>1. Shape BY DEF IInv
<1>2. NoneNamed
  <2>1. \/ asked' = {} \/ asked' = Asks(Data, Data, NoRow) \/ asked' = Asks(None, None, NoRow)
    BY DEF lockStatement, lockTables, start_stmt, unlockStatement, unlockTables, reset,
       external_lock, external_unlock
  <2>2. QED BY <2>1, NamesNone
<1>3. CASE lockStatement \/ lockTables
  <2>1. PICK command, i, u : external_lock(command, i, u) BY <1>3 DEF lockStatement, lockTables
  <2>2. my' = my \/ my' = [my EXCEPT !.stage = "open", !.command = command, !.unsafe = u]
    BY <2>1 DEF external_lock
  <2>3. my = Idle BY <2>1 DEF external_lock, IInv, Locking
  <2>4. my'.row = NoRow /\ my'.kept = my.kept
    <3>1. CASE my' = my BY <2>3, <3>1 DEF Idle
    <3>2. CASE my' = [my EXCEPT !.stage = "open", !.command = command, !.unsafe = u]
      BY <1>1, <2>3, <3>2 DEF Shape, Idle
    <3>3. QED BY <2>2, <3>1, <3>2
  <2>5. QED BY <1>2, <2>4, RowGone
<1>4. CASE start_stmt
  <2>1. h' = h /\ my' = [my EXCEPT !.stage = "open"] BY <1>4 DEF start_stmt
  <2>2. QED BY <1>1, <1>2, <2>1, RowStays DEF RowSame, Shape
<1>5. CASE unlockTables
  <2>1. my' = my /\ my = Idle BY <1>5 DEF unlockTables, IInv, Locking
  <2>2. my'.row = NoRow BY <2>1 DEF Idle
  <2>3. QED BY <1>2, <2>1, <2>2, RowGone
<1>6. CASE unlockStatement \/ reset
  <2>1. my' = Idle \/ my' = [Idle EXCEPT !.stage = "unlocked"] BY <1>6 DEF unlockStatement, reset
  <2>2. my'.row = NoRow /\ my'.kept = NoKept BY <2>1 DEF Idle
  <2>3. NoKept.pos = NoKept.row BY DEF NoKept
  <2>4. QED BY <1>2, <2>2, <2>3 DEF RowKnown, RightRow, NoneNamed
<1>7. QED BY <1>3, <1>4, <1>5, <1>6

(* Whatever MySQL updates, deletes or reads by position, the row that DB2  *)
(* is asked for is the one in MySQL's record buffer: after blocks are read *)
(* ahead, after scans have ended or failed, through another instance       *)
(* (currentRRN).                                                           *)
THEOREM AlwaysTheRightRow == Spec => []RightRow
<1>1. Init => RowKnown BY DEF Init, RowKnown, RightRow, Idle, NoKept
<1>2. ASSUME IInv, RowKnown, [Next]_vars PROVE RowKnown'
  <2>1. CASE lockStatement \/ lockTables \/ start_stmt \/ unlockStatement \/ unlockTables \/ reset
    BY <1>2, <2>1, LocksKnowRow
  <2>2. CASE (\E p \in 1..(NRows + 1) : index_read(p, 1)) \/ (\E p \in 0..NRows : index_read(p, -1))
             \/ index_first \/ index_last \/ index_next \/ index_prev \/ rnd_next
    BY <1>2, <2>2, ReadsKnowRow DEF index_first, index_last
  <2>3. CASE (\E i \in Indexes : index_init(i)) \/ index_end
             \/ (\E scan \in BOOLEAN : rnd_init(scan)) \/ rnd_end
    BY <1>2, <2>3, ScansKnowRow
  <2>4. CASE position \/ rnd_pos_Kept \/ rnd_pos_Dup \/ write_row \/ update_row \/ delete_row
    BY <1>2, <2>4, ChangesKnowRow
  <2>5. CASE UNCHANGED vars BY <1>2, <2>5 DEF vars, RowKnown, RightRow
  <2>6. QED BY <1>2, <2>1, <2>2, <2>3, <2>4, <2>5 DEF Next
<1>3. RowKnown => RightRow BY DEF RowKnown
<1>4. QED BY <1>1, <1>2, <1>3, Inductive, PTL DEF Spec

-----------------------------------------------------------------------------

(* The position k places from p in the direction d.                        *)
Along(p, k, d) == IF d = 1 THEN p + k ELSE p - k

(* A block of f, of which as many rows were handed over as its cursor      *)
(* says, the last of them at position p, in the direction d.               *)
Walks(b, f, p, d) ==
  /\ DOMAIN b = {"rows", "cursor", "ended"}
  /\ b.cursor \in 0..Len(b.rows) /\ Len(b.rows) \in Nat
  /\ \A k \in 1..Len(b.rows) :
       /\ Along(p, k - b.cursor, d) \in Rows
       /\ b.rows[k] = Order(f, Along(p, k - b.cursor, d))
  /\ b.ended => Along(p, Len(b.rows) - b.cursor + 1, d) \notin Rows
  /\ ~b.ended => Len(b.rows) > 0

(* Where a block may begin: at a row, or right behind the last.            *)
Start(p, d) == (d = 1 /\ p \in 1..(NRows + 1)) \/ (d = -1 /\ p \in 0..NRows)

LEMMA ReachRows ==
  ASSUME NEW p, NEW d, Start(p, d), NEW n \in Nat \ {0}
  PROVE  \E m \in 0..n : /\ Cardinality(Reach(p, n, d)) = m
                         /\ \A k \in 1..m : p + (k - 1) * d = Along(p, k - 1, d)
                                            /\ Along(p, k - 1, d) \in Rows
                         /\ m < n => Along(p, m, d) \notin Rows
<1> DEFINE room == IF d = 1 THEN NRows + 1 - p ELSE p
           m == IF room < n THEN room ELSE n
<1>0. NRows \in Nat /\ p \in Int BY HandleAssumption DEF Start
<1>1. room \in Nat /\ m \in 0..n BY <1>0 DEF Start
<1>2. \A k \in Int : p + k * d = Along(p, k, d)
  <2>1. CASE d = 1 BY <1>0, <2>1 DEF Along
  <2>2. CASE d = -1 BY <1>0, <2>2 DEF Along
  <2>3. QED BY <2>1, <2>2 DEF Start
<1>3. \A k \in 0..(n - 1) : Along(p, k, d) \in Rows <=> k < room
  BY <1>0 DEF Along, Rows, Start
<1>4. Reach(p, n, d) = 0..(m - 1)
  <2>1. \A k \in 0..(n - 1) : p + k * d \in Rows <=> k < room BY <1>2, <1>3
  <2>2. \A k : k \in 0..(m - 1) <=> k \in 0..(n - 1) /\ k < room BY <1>1
  <2> HIDE DEF room, m
  <2>3. \A k : k \in Reach(p, n, d) <=> k \in 0..(n - 1) /\ k < room BY <2>1 DEF Reach
  <2>4. QED BY <2>2, <2>3
<1>5. Cardinality(0..(m - 1)) = m
  <2>1. 0 \in Int /\ m - 1 \in Int BY <1>1
  <2>2. Cardinality(0..(m - 1)) = IF 0 > m - 1 THEN 0 ELSE (m - 1) - 0 + 1
    BY <2>1, FS_Interval
  <2>3. QED BY <1>1, <2>2
<1>6. \A k \in 1..m : k - 1 \in 0..(n - 1) /\ k - 1 \in Int /\ k - 1 < room BY <1>1
<1>7. m < n => m \in 0..(n - 1) /\ ~(m < room) BY <1>1
<1> HIDE DEF room, m
<1>8. QED BY <1>1, <1>2, <1>3, <1>4, <1>5, <1>6, <1>7

(* What a request returns: a block that begins at p and goes on as far as  *)
(* there are rows.                                                         *)
LEMMA BlockWalks ==
  ASSUME NEW f, NEW p, NEW d, Start(p, d), NEW n \in Nat \ {0}
  PROVE  /\ Walks(Block(f, p, n, d), f, Along(p, -1, d), d)
         /\ Block(f, p, n, d).cursor = 0
         /\ Block(f, p, n, d).ended \in BOOLEAN
         /\ Len(Block(f, p, n, d).rows) > 0 => p \in Rows
<1> DEFINE b == Block(f, p, n, d)
<1>0. p \in Int /\ d \in {1, -1} BY HandleAssumption DEF Start
<1>1. PICK m \in 0..n : /\ Cardinality(Reach(p, n, d)) = m
                        /\ \A k \in 1..m : p + (k - 1) * d = Along(p, k - 1, d)
                                           /\ Along(p, k - 1, d) \in Rows
                        /\ m < n => Along(p, m, d) \notin Rows
  BY ReachRows
<1>2. /\ b.rows = [k \in 1..m |-> Order(f, p + (k - 1) * d)] /\ b.cursor = 0 /\ b.ended = (m < n)
      /\ DOMAIN b = {"rows", "cursor", "ended"}
  BY <1>1 DEF Block
<1>3. m \in Nat BY <1>1
<1>4. Len(b.rows) = m
  <2>1. DOMAIN b.rows = 1..m BY <1>2
  <2> DEFINE S == {Order(f, p + (k - 1) * d) : k \in 1..m}
  <2>a. b.rows \in [1..m -> S] BY <1>2
  <2> HIDE DEF b, S
  <2>2. b.rows \in Seq(S) BY <2>a, <1>3, SeqDef
  <2>3. Len(b.rows) \in Nat /\ DOMAIN b.rows = 1..Len(b.rows) BY <2>2
  <2>4. QED BY <1>3, <2>1, <2>3
<1> HIDE DEF b
<1>5. \A k \in Int : Along(Along(p, -1, d), k, d) = Along(p, k - 1, d) BY <1>0 DEF Along
<1>6. \A k \in 1..m : k - b.cursor \in Int /\ k - b.cursor = k BY <1>2
<1>7. \A k \in 1..m : /\ Along(Along(p, -1, d), k - b.cursor, d) \in Rows
                      /\ b.rows[k] = Order(f, Along(Along(p, -1, d), k - b.cursor, d))
  <2> TAKE k \in 1..m
  <2>1. Along(Along(p, -1, d), k - b.cursor, d) = Along(p, k - 1, d) BY <1>5, <1>6
  <2>2. b.rows[k] = Order(f, p + (k - 1) * d) BY <1>2
  <2>3. p + (k - 1) * d = Along(p, k - 1, d) /\ Along(p, k - 1, d) \in Rows BY <1>1
  <2>4. QED BY <2>1, <2>2, <2>3
<1>8. b.ended => Along(Along(p, -1, d), m - b.cursor + 1, d) \notin Rows
  <2>1. m - b.cursor + 1 = m + 1 /\ m + 1 \in Int /\ (m + 1) - 1 = m BY <1>2, <1>3
  <2>2. Along(Along(p, -1, d), m + 1, d) = Along(p, m, d) BY <1>5, <2>1
  <2>3. QED BY <1>1, <1>2, <2>1, <2>2
<1>9. ~b.ended => m > 0
  <2>1. ~b.ended => ~(m < n) BY <1>2
  <2>2. QED BY <1>3, <2>1
<1>10. m > 0 => p \in Rows
  <2>1. m > 0 => 1 \in 1..m BY <1>3
  <2>2. Along(p, 1 - 1, d) = p BY <1>0 DEF Along
  <2>3. QED BY <1>1, <2>1, <2>2
<1>11. b.cursor \in 0..m BY <1>2, <1>3
<1>12. Walks(b, f, Along(p, -1, d), d)
  BY <1>2, <1>3, <1>4, <1>7, <1>8, <1>9, <1>11 DEF Walks
<1>13. b.ended \in BOOLEAN BY <1>2
<1>14. QED BY <1>2, <1>4, <1>10, <1>12, <1>13 DEF b

(* Where a scan stands: its position, the block behind and ahead of it,    *)
(* DB2's cursor at the end of the block, and the row MySQL has of it.      *)
Placed(b, a, sc, row) ==
  /\ sc.dir \in {1, -1} /\ sc.pos \in Int /\ sc.ended \in BOOLEAN
  /\ Walks(b, sc.on, sc.pos, sc.dir)
  /\ Len(b.rows) > 0 => a = Along(sc.pos, Len(b.rows) - b.cursor, sc.dir)
  /\ sc.ended => Along(sc.pos, 1, sc.dir) \notin Rows
  /\ row # NoRow /\ ~sc.ended => row = Order(sc.on, sc.pos)

Walking == my.scan.on # None /\ my.scan.dir # 0 /\ h.rndOk => Placed(buf, at, my.scan, my.row)

LEMMA AlongSums ==
  ASSUME NEW p \in Int, NEW d
  PROVE  /\ \A k \in Int : Along(p, k, d) \in Int
         /\ \A j, k \in Int : Along(Along(p, j, d), k, d) = Along(p, j + k, d)
         /\ Along(p, 0, d) = p
         /\ d \in {1, -1} => Along(p, 1, d) = p + d /\ Along(p, -1, d) = p - d
BY DEF Along

LEMMA Advances ==
  ASSUME NEW b, NEW f, NEW p \in Int, NEW d, Walks(b, f, p, d), b.cursor < Len(b.rows)
  PROVE  /\ Walks([b EXCEPT !.cursor = @ + 1], f, Along(p, 1, d), d)
         /\ b.rows[b.cursor + 1] = Order(f, Along(p, 1, d))
<1> DEFINE c == b.cursor
           n == Len(b.rows)
           e == [b EXCEPT !.cursor = @ + 1]
           q == Along(p, 1, d)
<1>1. c \in Int /\ n \in Nat /\ c + 1 \in 0..n /\ c + 1 \in 1..n BY DEF Walks
<1>2. e.cursor = c + 1 /\ e.rows = b.rows /\ e.ended = b.ended /\ DOMAIN e = DOMAIN b
  BY DEF Walks
<1>3. \A k \in Int : Along(q, k - (c + 1), d) = Along(p, k - c, d)
  <2> TAKE k \in Int
  <2>1. Along(q, k - (c + 1), d) = Along(p, 1 + (k - (c + 1)), d) BY <1>1, AlongSums
  <2>2. 1 + (k - (c + 1)) = k - c BY <1>1
  <2>3. QED BY <2>1, <2>2
<1>4. \A k \in 1..n : /\ Along(p, k - c, d) \in Rows /\ b.rows[k] = Order(f, Along(p, k - c, d))
  BY DEF Walks
<1>5. b.ended => Along(p, n - c + 1, d) \notin Rows BY DEF Walks
<1>6. ~b.ended => n > 0 BY DEF Walks
<1>7. n - (c + 1) + 1 = (n + 1) - (c + 1) /\ n - c + 1 = (n + 1) - c /\ n + 1 \in Int BY <1>1
<1>8. Along(q, n - (c + 1) + 1, d) = Along(p, n - c + 1, d) BY <1>3, <1>7
<1>9. DOMAIN b = {"rows", "cursor", "ended"} BY DEF Walks
<1>10. (c + 1) - c = 1 BY <1>1
<1>11. b.rows[c + 1] = Order(f, q)
  <2>1. b.rows[c + 1] = Order(f, Along(p, (c + 1) - c, d)) BY <1>1, <1>4
  <2>2. QED BY <1>10, <2>1
<1>12. \A k \in 1..n : k \in Int BY <1>1
<1> HIDE DEF c, n, e, q
<1>13. \A k \in 1..n : /\ Along(q, k - (c + 1), d) \in Rows /\ b.rows[k] = Order(f, Along(q, k - (c + 1), d))
  BY <1>3, <1>4, <1>12
<1>14. Walks(e, f, q, d)
  <2>1. Len(e.rows) = n BY <1>2 DEF n
  <2>2. QED BY <1>1, <1>2, <1>5, <1>6, <1>8, <1>9, <1>13, <2>1 DEF Walks
<1>15. QED BY <1>11, <1>14 DEF c, e, q

(* A row delivered from a block is the next one of the scan; none is, when *)
(* there is none left.                                                     *)
LEMMA DeliversNext ==
  ASSUME Shape, NEW s, NEW b, NEW scan, NEW f, NEW p \in Int, NEW d \in {1, -1},
         Walks(b, f, p, d), b.cursor < Len(b.rows) \/ b.ended,
         Len(b.rows) > 0 => at' = Along(p, Len(b.rows) - b.cursor, d),
         DOMAIN scan = DOMAIN my.scan, scan.on = f, scan.dir = d, scan.pos = p, scan.ended = FALSE,
         Delivers(s, b, scan)
  PROVE  Placed(buf', at', my'.scan, my'.row)
<1>0. Len(b.rows) \in Nat /\ b.cursor \in 0..Len(b.rows) BY DEF Walks
<1>1. CASE b.cursor < Len(b.rows)
  <2>1. /\ buf' = [b EXCEPT !.cursor = @ + 1]
        /\ my' = [my EXCEPT !.row = b.rows[b.cursor + 1],
                            !.scan = [scan EXCEPT !.pos = @ + scan.dir]]
    BY <1>1 DEF Delivers
  <2>2. Walks(buf', f, Along(p, 1, d), d) /\ b.rows[b.cursor + 1] = Order(f, Along(p, 1, d))
    BY <1>1, <2>1, Advances
  <2>3. buf'.cursor = b.cursor + 1 /\ buf'.rows = b.rows BY <2>1 DEF Walks
  <2>4. /\ my'.row = b.rows[b.cursor + 1] /\ my'.scan.pos = p + d /\ my'.scan.on = f
        /\ my'.scan.dir = d /\ my'.scan.ended = FALSE
    BY <2>1 DEF Shape
  <2>5. Along(p, 1, d) = p + d /\ Along(p, 1, d) \in Int BY AlongSums
  <2>6. Along(p, Len(b.rows) - b.cursor, d) = Along(Along(p, 1, d), Len(b.rows) - (b.cursor + 1), d)
    <3>1. Len(b.rows) - (b.cursor + 1) \in Int /\ 1 + (Len(b.rows) - (b.cursor + 1)) = Len(b.rows) - b.cursor
      BY <1>0
    <3>2. QED BY <3>1, AlongSums
  <2>7. QED BY <2>2, <2>3, <2>4, <2>5, <2>6 DEF Placed
<1>2. CASE ~(b.cursor < Len(b.rows))
  <2>1. /\ buf' = b
        /\ my' = [my EXCEPT !.row = NoRow, !.scan = [scan EXCEPT !.ended = TRUE]]
    BY <1>2 DEF Delivers
  <2>2. /\ my'.row = NoRow /\ my'.scan.pos = p /\ my'.scan.on = f
        /\ my'.scan.dir = d /\ my'.scan.ended = TRUE
    BY <2>1 DEF Shape
  <2>3. Len(b.rows) - b.cursor + 1 = 1 BY <1>0, <1>2
  <2>4. Along(p, 1, d) \notin Rows
    <3>1. Along(p, Len(b.rows) - b.cursor + 1, d) \notin Rows BY <1>2 DEF Walks
    <3>2. QED BY <2>3, <3>1
  <2>5. QED BY <2>1, <2>2, <2>4 DEF Placed
<1>3. QED BY <1>1, <1>2

(* A request puts DB2's cursor at the end of the block it returns.         *)
LEMMA ReadsPlaces ==
  ASSUME NEW s, NEW f, NEW p, NEW d, Start(p, d), NEW n \in Nat \ {0}, reads(s, Block(f, p, n, d), p, d)
  PROVE  Len(Block(f, p, n, d).rows) > 0 =>
           at' = Along(Along(p, -1, d), Len(Block(f, p, n, d).rows) - Block(f, p, n, d).cursor, d)
<1> DEFINE b == Block(f, p, n, d)
<1>1. b.cursor = 0 /\ Len(b.rows) \in Nat BY BlockWalks DEF Walks
<1>2. at' = IF b.rows = <<>> THEN p ELSE p + (Len(b.rows) - 1) * d BY DEF reads
<1> HIDE DEF b
<1>3. SUFFICES ASSUME Len(b.rows) > 0
               PROVE  at' = Along(Along(p, -1, d), Len(b.rows) - b.cursor, d)
  BY DEF b
<1>4. b.rows # <<>>
  <2>1. Len(<<>>) = 0 OBVIOUS
  <2>2. QED BY <1>1, <1>3, <2>1
<1>5. p \in Int /\ d \in {1, -1} BY HandleAssumption DEF Start
<1>6. (Len(b.rows) - 1) \in Int /\ Len(b.rows) - b.cursor = Len(b.rows) /\ Len(b.rows) \in Int BY <1>1
<1>7. Along(Along(p, -1, d), Len(b.rows), d) = Along(p, -1 + Len(b.rows), d)
  <2>1. CASE d = 1 BY <1>5, <1>6, <2>1 DEF Along
  <2>2. CASE d = -1 BY <1>5, <1>6, <2>2 DEF Along
  <2>3. QED BY <1>5, <2>1, <2>2
<1>8. -1 + Len(b.rows) = Len(b.rows) - 1 BY <1>6
<1>9. p + (Len(b.rows) - 1) * d = Along(p, Len(b.rows) - 1, d)
  <2>1. CASE d = 1 BY <1>5, <1>6, <2>1 DEF Along
  <2>2. CASE d = -1 BY <1>5, <1>6, <2>2 DEF Along
  <2>3. QED BY <1>5, <2>1, <2>2
<1>10. QED BY <1>2, <1>4, <1>6, <1>7, <1>8, <1>9

LEMMA InitialReadWalks ==
  ASSUME IInv, Walking, NEW p, NEW d, Start(p, d), index_read(p, d)
  PROVE  Walking'
<1>1. Shape /\ my.scan.on \in Indexes BY DEF IInv, index_read
<1>2. h.active = my.scan.on /\ h.index = h.active BY <1>1 DEF IInv, Scanning
<1>3. CASE Fails /\ UNCHANGED <<h, buf, at, held>>
  BY <1>1, <1>3, FailsRow DEF Walking
<1>4. CASE doInitialRead(prepReadBuffer(h, h.index), p, d)
  <2> DEFINE s == prepReadBuffer(h, h.index)
             b == Block(h.active, p, 1, d)
             t == [s EXCEPT !.release = ~b.ended]
             scan == [my.scan EXCEPT !.dir = d, !.pos = p - d, !.ended = FALSE]
             q == Along(p, -1, d)
  <2>1. s.active = h.active BY <1>1 DEF prepReadBuffer, Shape
  <2>2. newReadRequest(s.active, p, d) = b BY <2>1 DEF newReadRequest
  <2>3. reads(s, b, p, d) /\ Delivers(t, b, scan) BY <1>4, <2>2 DEF doInitialRead
  <2>4. p \in Int /\ d \in {1, -1} BY HandleAssumption DEF Start
  <2>5. q \in Int /\ q = p - d BY <2>4 DEF Along
  <2>6. 1 \in Nat \ {0} OBVIOUS
  <2>7. Walks(b, h.active, q, d) /\ b.cursor = 0 BY <2>6, BlockWalks
  <2>8. Len(b.rows) > 0 => at' = Along(q, Len(b.rows) - b.cursor, d)
    BY <2>3, <2>6, ReadsPlaces
  <2>9. /\ DOMAIN scan = DOMAIN my.scan /\ scan.on = h.active /\ scan.dir = d
        /\ scan.pos = q /\ scan.ended = FALSE
    BY <1>1, <1>2, <2>5 DEF Shape
  <2> HIDE DEF s, b, t, scan, q
  <2>10. b.cursor < Len(b.rows) \/ b.ended BY <2>7 DEF Walks
  <2>11. Placed(buf', at', my'.scan, my'.row)
    BY <1>1, <2>3, <2>4, <2>5, <2>7, <2>8, <2>9, <2>10, DeliversNext
  <2>12. QED BY <2>11 DEF Walking
<1>5. QED BY <1>3, <1>4 DEF index_read

LEMMA BufferWalks ==
  ASSUME IInv, Walking, NEW d \in {1, -1}, my.scan.on # None, my.scan.dir = d, ~my.scan.ended,
         h.rndOk, readFromBuffer(d)
  PROVE  Walking'
<1>1. Shape BY DEF IInv
<1>2. Placed(buf, at, my.scan, my.row) BY DEF Walking
<1>3. h.active = my.scan.on
  BY DEF IInv, Scanning, Handles
<1> DEFINE f == my.scan.on
           p == my.scan.pos
<1>4. p \in Int /\ Walks(buf, f, p, d) /\ my.scan.ended = FALSE
      /\ (Len(buf.rows) > 0 => at = Along(p, Len(buf.rows) - buf.cursor, d))
  BY <1>2 DEF Placed
<1>5. CASE buf.cursor < Len(buf.rows) \/ buf.ended
  <2>1. Delivers(h, buf, my.scan) /\ at' = at BY <1>5 DEF readFromBuffer
  <2>2. Placed(buf', at', my'.scan, my'.row) BY <1>1, <1>4, <1>5, <2>1, DeliversNext
  <2>3. QED BY <2>2 DEF Walking
<1>6. CASE ~(buf.cursor < Len(buf.rows) \/ buf.ended)
  <2> DEFINE a == at + d
             n == RowsToBlock
             b == Block(f, a, n, d)
             s == [h EXCEPT !.release = ~b.ended]
  <2>1. Len(buf.rows) > 0 /\ buf.cursor \in 0..Len(buf.rows) /\ Len(buf.rows) \in Nat
    BY <1>4, <1>6 DEF Walks
  <2>2. Len(buf.rows) - buf.cursor = 0 /\ Len(buf.rows) \in 1..Len(buf.rows) BY <1>6, <2>1
  <2>3. at = p BY <1>4, <2>1, <2>2, AlongSums
  <2>4. p \in Rows
    <3>1. Along(p, Len(buf.rows) - buf.cursor, d) \in Rows BY <1>4, <2>2 DEF Walks
    <3>2. QED BY <1>4, <2>2, <3>1, AlongSums
  <2>5. Start(a, d) BY <2>3, <2>4, HandleAssumption DEF Start, Rows
  <2>6. Along(a, -1, d) = p BY <1>4, <2>3 DEF Along
  <2>7. n \in Nat \ {0} BY HandleAssumption
  <2>8. loadNewRows(h.active, at + d, d) = b BY <1>3 DEF loadNewRows
  <2>9. reads(h, b, a, d) /\ Delivers(s, b, my.scan) BY <1>6, <2>8 DEF readFromBuffer
  <2>10. Walks(b, f, p, d) /\ b.cursor = 0 BY <2>5, <2>6, <2>7, BlockWalks
  <2>11. Len(b.rows) > 0 => at' = Along(p, Len(b.rows) - b.cursor, d)
    BY <2>5, <2>6, <2>7, <2>9, ReadsPlaces
  <2> HIDE DEF a, n, b, s
  <2>12. b.cursor < Len(b.rows) \/ b.ended BY <2>10 DEF Walks
  <2>13. Placed(buf', at', my'.scan, my'.row)
    BY <1>1, <1>4, <2>9, <2>10, <2>11, <2>12, DeliversNext
  <2>14. QED BY <2>13 DEF Walking
<1>7. QED BY <1>5, <1>6

(* What leaves a scan where it stands, or is no scan of rows in order.     *)
LEMMA WalkKept ==
  ASSUME Walking, UNCHANGED <<buf, at>>, my'.scan = my.scan, my'.row = my.row,
         h'.rndOk = h.rndOk
  PROVE  Walking'
BY DEF Walking

LEMMA NoWalk ==
  ASSUME my'.scan.on = None \/ my'.scan.dir = 0 \/ ~h'.rndOk
  PROVE  Walking'
BY DEF Walking

LEMMA ReadsWalk ==
  ASSUME IInv, Walking,
         \/ \E p \in 1..(NRows + 1) : index_read(p, 1)
         \/ \E p \in 0..NRows : index_read(p, -1)
         \/ index_first \/ index_last \/ index_next \/ index_prev \/ rnd_next
  PROVE  Walking'
<1>1. CASE \/ \E p \in 1..(NRows + 1) : index_read(p, 1)
           \/ \E p \in 0..NRows : index_read(p, -1)
           \/ index_first \/ index_last
  <2>1. PICK p, d : Start(p, d) /\ index_read(p, d)
    BY <1>1, HandleAssumption DEF Start, index_first, index_last
  <2>2. QED BY <2>1, InitialReadWalks
<1>2. CASE index_next \/ index_prev
  <2>1. my.scan.on # None /\ h.rndOk BY <1>2, Names DEF index_next, index_prev, IInv, Scanning
  <2>2. QED BY <1>2, <2>1, BufferWalks DEF index_next, index_prev
<1>3. CASE rnd_next
  <2>1. my.scan.on # None BY <1>3, Names DEF rnd_next
  <2>2. CASE h.rndOk BY <1>3, <2>1, <2>2, BufferWalks DEF rnd_next
  <2>3. CASE ~h.rndOk BY <1>3, <2>3, NoWalk DEF rnd_next
  <2>4. QED BY <2>2, <2>3
<1>4. QED BY <1>1, <1>2, <1>3

LEMMA ScansWalk ==
  ASSUME IInv, Walking, (\E i \in Indexes : index_init(i)) \/ index_end
               \/ (\E scan \in BOOLEAN : rnd_init(scan)) \/ rnd_end
  PROVE  Walking'
<1>1. Shape BY DEF IInv
<1>2. ASSUME NEW i \in Indexes, index_init(i) PROVE Walking'
  <2>1. my.scan = NoScan
        /\ (my' = [my EXCEPT !.scan.on = i, !.row = NoRow, !.dup = NoRow] \/ Fails)
    BY <1>2 DEF index_init
  <2>2. CASE my' = [my EXCEPT !.scan.on = i, !.row = NoRow, !.dup = NoRow]
    <3>1. my'.scan = [my.scan EXCEPT !.on = i] BY <1>1, <2>2 DEF Shape
    <3>2. my'.scan.dir = 0 BY <2>1, <3>1 DEF NoScan
    <3>3. QED BY <3>2, NoWalk
  <2>3. CASE Fails
    <3>1. my'.scan.dir = 0 BY <1>1, <2>1, <2>3, FailsRow DEF NoScan
    <3>2. QED BY <3>1, NoWalk
  <2>4. QED BY <2>1, <2>2, <2>3
<1>3. ASSUME NEW scan \in BOOLEAN, rnd_init(scan) PROVE Walking'
  <2> DEFINE r == [h EXCEPT !.assoc = None]
             u == rnd_init_Data(r)
             s == writeIfUpdatable(prepReadBuffer(u, Data), Data)
             b == Block(Data, 1, 1, 1)
             z == releaseActiveHandle(u)
             begun == [NoScan EXCEPT !.on = Data, !.dir = IF scan THEN 1 ELSE 0]
  <2>1. /\ my' = [my EXCEPT !.scan = begun, !.row = NoRow, !.dup = NoRow]
        /\ \/ scan => reads(s, b, 1, 1) /\ buf' = b
           \/ h' = [r EXCEPT !.rndOk = FALSE]
           \/ h' = [z EXCEPT !.rndOk = FALSE]
    BY <1>3 DEF rnd_init, newReadRequest
  <2>2. Core(r, h) /\ Core(u, r) /\ Core(z, u) BY CoreKept
  <2>3. begun.on = Data /\ begun.dir = (IF scan THEN 1 ELSE 0) /\ begun.pos = 0 /\ begun.ended = FALSE
    BY DEF NoScan
  <2> HIDE DEF r, u, s, z, begun
  <2>4. my'.scan = begun /\ my'.row = NoRow BY <1>1, <2>1 DEF Shape
  <2>5. Core(u, h) BY <2>2, CoreTrans
  <2>6. Core(z, h) BY <2>2, <2>5, CoreTrans
  <2>7. CASE h' = [r EXCEPT !.rndOk = FALSE] \/ h' = [z EXCEPT !.rndOk = FALSE]
    <3>1. ~h'.rndOk BY <1>1, <2>2, <2>6, <2>7 DEF Core, Shape, Member
    <3>2. QED BY <3>1, NoWalk
  <2>8. CASE scan /\ reads(s, b, 1, 1) /\ buf' = b
    <3>1. Start(1, 1) BY HandleAssumption DEF Start
    <3>2. 1 \in Nat \ {0} /\ 0 \in Int /\ Along(1, -1, 1) = 0 BY DEF Along
    <3>3. Walks(b, Data, 0, 1) BY <3>1, <3>2, BlockWalks
    <3>4. Len(b.rows) > 0 => at' = Along(0, Len(b.rows) - b.cursor, 1)
      BY <2>8, <3>1, <3>2, ReadsPlaces
    <3> HIDE DEF b
    <3>5. Placed(buf', at', my'.scan, my'.row)
      BY <2>3, <2>4, <2>8, <3>2, <3>3, <3>4 DEF Placed
    <3>6. QED BY <3>5 DEF Walking
  <2>9. CASE ~scan
    <3>1. my'.scan.dir = 0 BY <2>3, <2>4, <2>9
    <3>2. QED BY <3>1, NoWalk
  <2>10. QED BY <2>1, <2>7, <2>8, <2>9
<1>4. CASE index_end \/ rnd_end
  <2>1. my' = [my EXCEPT !.scan = NoScan] BY <1>4 DEF index_end, rnd_end
  <2>2. my'.scan.on = None BY <1>1, <2>1 DEF Shape, NoScan
  <2>3. QED BY <2>2, NoWalk
<1>5. QED BY <1>2, <1>3, <1>4

LEMMA ChangesWalk ==
  ASSUME IInv, Walking,
         position \/ rnd_pos_Kept \/ rnd_pos_Dup \/ write_row \/ update_row \/ delete_row
  PROVE  Walking'
<1>1. Shape BY DEF IInv
<1>2. CASE position
  <2>1. h' = h /\ my' = [my EXCEPT !.kept = [pos |-> positionOf(h), row |-> my.row]]
        /\ UNCHANGED <<buf, at>>
    BY <1>2 DEF position
  <2>2. my'.scan = my.scan /\ my'.row = my.row BY <1>1, <2>1 DEF Shape
  <2>3. QED BY <2>1, <2>2, WalkKept
<1>3. ASSUME NEW pos, NEW row, rnd_pos(pos, row), my.scan.dir = 0
      PROVE  Walking'
  <2>1. my' = [my EXCEPT !.row = row] \/ Fails \/ my' = [my EXCEPT !.failed = TRUE]
    BY <1>3 DEF rnd_pos
  <2>2. my'.scan = my.scan
    <3>1. CASE my' = [my EXCEPT !.row = row] BY <1>1, <3>1 DEF Shape
    <3>2. CASE my' = [my EXCEPT !.failed = TRUE] BY <1>1, <3>2 DEF Shape
    <3>3. QED BY <1>1, <2>1, <3>1, <3>2, FailsRow
  <2>3. QED BY <1>3, <2>2, NoWalk
<1>4. CASE rnd_pos_Kept BY <1>3, <1>4 DEF rnd_pos_Kept
<1>5. CASE rnd_pos_Dup
  <2>1. my.scan.dir = 0 BY <1>5 DEF rnd_pos_Dup, NoScan
  <2>2. QED BY <1>3, <1>5, <2>1 DEF rnd_pos_Dup
<1>6. CASE write_row
  <2>1. my.scan = NoScan
        /\ \/ my' = [my EXCEPT !.row = NoRow, !.dup = NoRow] \/ Fails
           \/ \E r \in Rows : my' = [my EXCEPT !.row = NoRow, !.dup = r]
    BY <1>6 DEF write_row
  <2>2. my'.scan = my.scan
    <3>1. CASE my' = [my EXCEPT !.row = NoRow, !.dup = NoRow] BY <1>1, <3>1 DEF Shape
    <3>2. CASE \E r \in Rows : my' = [my EXCEPT !.row = NoRow, !.dup = r] BY <1>1, <3>2 DEF Shape
    <3>3. QED BY <1>1, <2>1, <3>1, <3>2, FailsRow
  <2>3. my.scan.dir = 0
    <3>1. my.scan = NoScan BY <2>1
    <3>2. QED BY <3>1 DEF NoScan
  <2>4. my'.scan.dir = 0 BY <2>2, <2>3
  <2>5. QED BY <2>4, NoWalk
<1>7. CASE update_row \/ delete_row
  <2> DEFINE taken == h.active = None
             s == IF taken THEN useFileByHandle(h) ELSE h
             z == [s EXCEPT !.assoc = s.active]
  <2>1. Core(s, h) BY CoreKept DEF Core
  <2>2. Core(z, s) /\ Core(released(s, taken), s) /\ Core(released(z, taken), z)
    BY CoreKept
  <2>3. /\ h' = h \/ h' = released(s, taken) \/ h' = released(z, taken)
        /\ my' = my \/ Fails
        /\ UNCHANGED <<buf, at>>
    BY <1>7 DEF update_row, delete_row
  <2> HIDE DEF taken, s, z
  <2>4. Core(z, h) /\ Core(released(s, taken), h) BY <2>1, <2>2, CoreTrans
  <2>5. Core(released(z, taken), h) BY <2>2, <2>4, CoreTrans
  <2>6. h'.rndOk = h.rndOk BY <1>1, <2>3, <2>4, <2>5 DEF Core, Shape, Member
  <2>7. my'.scan = my.scan /\ my'.row = my.row BY <1>1, <2>3, FailsRow
  <2>8. QED BY <2>3, <2>6, <2>7, WalkKept
<1>8. QED BY <1>2, <1>4, <1>5, <1>6, <1>7

LEMMA LocksWalk ==
  ASSUME IInv, Walking,
         lockStatement \/ lockTables \/ start_stmt \/ unlockStatement \/ unlockTables \/ reset
  PROVE  Walking'
<1>1. Shape BY DEF IInv
<1>2. my'.scan.on = None
  <2>1. CASE lockStatement \/ lockTables \/ start_stmt \/ unlockTables
    <3>1. my = Idle
      BY <2>1 DEF lockStatement, lockTables, external_lock, start_stmt, unlockTables, IInv, Locking
    <3>2. my.scan.on = None BY <3>1 DEF Idle, NoScan
    <3>3. my'.scan = my.scan
      <4>1. CASE lockStatement \/ lockTables
        <5>1. PICK command, i, u : external_lock(command, i, u) BY <4>1 DEF lockStatement, lockTables
        <5>2. my' = my \/ my' = [my EXCEPT !.stage = "open", !.command = command, !.unsafe = u]
          BY <5>1 DEF external_lock
        <5>3. QED BY <1>1, <5>2 DEF Shape
      <4>2. CASE start_stmt \/ unlockTables BY <1>1, <4>2 DEF start_stmt, unlockTables, Shape
      <4>3. QED BY <2>1, <4>1, <4>2
    <3>4. QED BY <3>2, <3>3
  <2>2. CASE unlockStatement \/ reset
    <3>1. my' = Idle \/ my' = [Idle EXCEPT !.stage = "unlocked"] BY <2>2 DEF unlockStatement, reset
    <3>2. QED BY <3>1 DEF Idle, NoScan
  <2>3. QED BY <2>1, <2>2
<1>3. QED BY <1>2, NoWalk

(* A scan hands over the rows of its file in their order, none twice and   *)
(* none left out, whatever the blocks, and ends behind the last of them,   *)
(* for any key order and block size (readFromBuffer, loadNewRows).         *)
THEOREM RowsAlwaysInOrder == Spec => []RowsInOrder
<1>1. Init => Walking
  <2> SUFFICES ASSUME Init PROVE Walking OBVIOUS
  <2>1. my.scan.on = None BY DEF Init, Idle, NoScan
  <2>2. QED BY <2>1 DEF Walking
<1>2. ASSUME IInv, Walking, [Next]_vars PROVE Walking'
  <2>1. CASE lockStatement \/ lockTables \/ start_stmt \/ unlockStatement \/ unlockTables \/ reset
    BY <1>2, <2>1, LocksWalk
  <2>2. CASE (\E p \in 1..(NRows + 1) : index_read(p, 1)) \/ (\E p \in 0..NRows : index_read(p, -1))
             \/ index_first \/ index_last \/ index_next \/ index_prev \/ rnd_next
    BY <1>2, <2>2, ReadsWalk
  <2>3. CASE (\E i \in Indexes : index_init(i)) \/ index_end
             \/ (\E scan \in BOOLEAN : rnd_init(scan)) \/ rnd_end
    BY <1>2, <2>3, ScansWalk
  <2>4. CASE position \/ rnd_pos_Kept \/ rnd_pos_Dup \/ write_row \/ update_row \/ delete_row
    BY <1>2, <2>4, ChangesWalk
  <2>5. CASE UNCHANGED vars BY <1>2, <2>5 DEF vars, Walking
  <2>6. QED BY <1>2, <2>1, <2>2, <2>3, <2>4, <2>5 DEF Next
<1>3. Walking => RowsInOrder
  <2>1. ASSUME NEW p \in Int, NEW d \in {1, -1} PROVE Along(p, 1, d) = p + d BY DEF Along
  <2>2. QED BY <2>1 DEF Walking, Placed, RowsInOrder
<1>4. QED BY <1>1, <1>2, <1>3, Inductive, PTL DEF Spec

=============================================================================
