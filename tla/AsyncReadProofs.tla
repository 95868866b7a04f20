--------------------------- MODULE AsyncReadProofs ---------------------------
(***************************************************************************)
(* Proofs about AsyncRead for every number of rows, capacity, batch size   *)
(* and pipe size, and for a server job that may end at any time.           *)
(*                                                                         *)
(* They assume what AsyncRead's failing runs show to be needed: callers    *)
(* end a read before they prepare the next (EndReadFirst), and read(2) on  *)
(* the pipe does not fail (~PipeReadMayFail).                              *)
(***************************************************************************)
EXTENDS AsyncRead, TLAPS

(* The server job is at work on a block; nothing is going on or in flight. *)
Working == srv.phase \in {"fetch", "post"}
Quiet == ~Working /\ pipe = <<>>

(* What is known at each point of readNextRow. *)
ControlInv ==
  /\ client = "open" /\ rc # "ERRNO" => file
  /\ pc # "idle" => client = "open"
  /\ pc \in {"poll", "drain", "load", "read"} => rc = "OK"
  /\ pc \in {"poll", "drain", "read"} => readIsAsync
  /\ pc = "drain" => usedRows = maxRows
  /\ pc \in {"drain", "load"} => readCursor = usedRows
  /\ pc = "load" /\ readIsAsync => pipeState = "ConsumedFullBufferMsg"
  /\ pc = "return" => readCursor < usedRows \/ rc # "OK"

(* Without a request, after one that got no pipe and between synchronous   *)
(* ones nothing goes on.                                                   *)
IdleInv ==
  /\ client # "open" => Quiet
  /\ ~readIsAsync => Quiet
  /\ client = "open" /\ rc = "ERRNO" => Quiet
  /\ client = "prepared" \/ (client = "open" /\ rc = "ERRNO") => usedRows = 0 /\ readCursor = 0

(* A job at work has an engine that can still interrupt it. *)
ServerInv ==
  Working => /\ client = "open" /\ file /\ readIsAsync /\ rc = "OK"
             /\ srv.cum <= srv.max
             /\ srv.phase = "fetch" => srv.cum < srv.max
             /\ srv.phase = "post" => srv.cum > 0

Served == client = "open" /\ rc # "ERRNO"

(* The block is the part of the range that ends at the server's position,  *)
(* and the cursor is where the last row handed over says.                  *)
BlockInv ==
  Served => /\ usedRows = srv.cum /\ maxRows = srv.max
            /\ srv.cum <= srv.max /\ srv.cum <= srv.pos /\ srv.pos <= range
            /\ srv.max <= rowCapacity /\ rowsToBlock \in 1 .. rowCapacity
            /\ readCursor <= usedRows
            /\ lastRow + srv.cum = srv.pos + readCursor
            /\ \A s \in Slots : s < srv.cum => slots[s] + srv.cum = srv.pos + s + 1

(* Only the last message can tell of the end of the block or of the data,  *)
(* and only once the job is done.                                          *)
PipeInv ==
  \A i \in DOMAIN pipe :
    /\ pipe[i].cum <= srv.cum
    /\ pipe[i].rtn \in EndCodes => srv.pos = range
    /\ pipe[i].rtn = "OK" => pipe[i].cum > 0
    /\ i < Len(pipe) \/ Working => pipe[i].rtn = "OK" /\ pipe[i].cum < srv.max

(* Once the message of a full block is consumed there is nothing to wait   *)
(* for until the next block is under way.                                  *)
ConsumedInv ==
  Served /\ readIsAsync /\ rc = "OK" /\ pc # "read"
    /\ pipeState = "ConsumedFullBufferMsg" => Quiet

(* The end is the end of the range, and no row follows it or an error. *)
OutcomeInv ==
  client = "open" => /\ rc \in EndOfData => srv.pos = range
                     /\ outcome \in {"end", "error"} => rc # "OK" /\ readCursor = usedRows
                     /\ outcome = "error" => rc \notin EndOfData

IInv == /\ TypeOK /\ NoStrayRead /\ ControlInv /\ IdleInv /\ ServerInv
        /\ BlockInv /\ PipeInv /\ ConsumedInv /\ OutcomeInv

-----------------------------------------------------------------------------
(* Steps of the engine that only move readNextRow on. *)

LEMMA ReadNextRowStep == ASSUME IInv, readNextRow PROVE IInv'
  BY DEF IInv, TypeOK, NoStrayRead, ControlInv, IdleInv, ServerInv, BlockInv, PipeInv,
         ConsumedInv, OutcomeInv, readNextRow, readerUnchanged, bufferVars, layoutVars,
         requestVars, Served, Working, Quiet

LEMMA LoopConditionStep == ASSUME IInv, loopCondition PROVE IInv'
  BY DEF IInv, TypeOK, NoStrayRead, ControlInv, IdleInv, ServerInv, BlockInv, PipeInv,
         ConsumedInv, OutcomeInv, loopCondition, readerUnchanged, bufferVars, layoutVars,
         requestVars, Served, Working, Quiet

LEMMA PollNextRowStep == ASSUME IInv, pollNextRow PROVE IInv'
  BY DEF IInv, TypeOK, NoStrayRead, ControlInv, IdleInv, ServerInv, BlockInv, PipeInv,
         ConsumedInv, OutcomeInv, pollNextRow, notReadToEnd, readerUnchanged, bufferVars,
         layoutVars, requestVars, Served, Working, Quiet

LEMMA ReturnRowStep == ASSUME IInv, returnRow PROVE IInv'
<1>1. /\ client = "open" /\ pc = "return" /\ pc' = "idle"
      /\ UNCHANGED <<usedRows, maxRows, rc, srv, strays, pipe, slots, client, msgPipe,
                     allocSize, rowCapacity, rowsToBlock, readIsAsync, file, pipeState,
                     releaseRowNeeded, lastMsg, range>>
  BY DEF IInv, ControlInv, returnRow, readerUnchanged, bufferVars, layoutVars, requestVars
<1>2. CASE readCursor < usedRows
  <2>1. Served
    BY <1>1, <1>2 DEF IInv, IdleInv, Served
  <2>2. readCursor \in Slots /\ readCursor < srv.cum /\ readCursor < rowCapacity
    <3>1. usedRows \in 0 .. MaxCapacity /\ readCursor \in 0 .. MaxCapacity
          /\ srv.max \in Nat /\ rowCapacity \in Nat
      BY MaxCapacityAssumption DEF IInv, TypeOK, Reads
    <3>2. usedRows = srv.cum /\ srv.cum <= srv.max /\ srv.max <= rowCapacity
      BY <2>1 DEF IInv, BlockInv
    <3>3. QED BY <1>2, <3>1, <3>2, MaxCapacityAssumption DEF Slots
  <2>3. lastRow' = slots[readCursor] /\ readCursor' = readCursor + 1 /\ outcome' = "row"
    BY <1>2, <2>2 DEF returnRow, rowAvailable
  <2>4. TypeOK'
    BY <1>1, <1>2, <2>2, <2>3, MaxCapacityAssumption DEF IInv, TypeOK
  <2>5. BlockInv'
    <3>1. srv.cum \in Nat /\ srv.pos \in Nat /\ slots[readCursor] \in Nat /\ lastRow \in Nat
          /\ readCursor \in Nat
      BY <2>2, NRowsAssumption, MaxCapacityAssumption DEF IInv, TypeOK, Reads
    <3>2. lastRow' + srv.cum = srv.pos + readCursor'
      BY <2>1, <2>2, <2>3, <3>1 DEF IInv, BlockInv
    <3>3. readCursor' <= usedRows
      BY <1>2, <2>1, <2>3, <3>1 DEF IInv, BlockInv
    <3>4. QED BY <1>1, <2>1, <3>2, <3>3 DEF IInv, BlockInv, Served
  <2>6. QED
    BY <1>1, <1>2, <2>1, <2>3, <2>4, <2>5
       DEF IInv, NoStrayRead, ControlInv, IdleInv, ServerInv, PipeInv,
           ConsumedInv, OutcomeInv, Served, Working, Quiet
<1>3. CASE ~(readCursor < usedRows)
  <2>1. rc # "OK" /\ readCursor' = readCursor /\ lastRow' = lastRow
        /\ outcome' = IF rc \in EndOfData THEN "end" ELSE "error"
    BY <1>1, <1>3 DEF IInv, ControlInv, returnRow, rowAvailable
  <2>2. readCursor = usedRows
    <3>1. usedRows \in Nat /\ readCursor \in Nat
      BY MaxCapacityAssumption DEF IInv, TypeOK
    <3>2. readCursor <= usedRows
      BY <1>1, <3>1 DEF IInv, IdleInv, BlockInv, Served
    <3>3. QED BY <1>3, <3>1, <3>2
  <2>3. QED
    BY <1>1, <2>1, <2>2
       DEF IInv, TypeOK, NoStrayRead, ControlInv, IdleInv, ServerInv, BlockInv, PipeInv,
           ConsumedInv, OutcomeInv, Served, Working, Quiet
<1>4. QED BY <1>2, <1>3

LEMMA ReleaseStep ==
  ASSUME IInv, releaseAnyLockedRows \/ UNCHANGED vars
  PROVE  IInv'
<1>1. releaseRowNeeded' \in BOOLEAN
  BY DEF IInv, TypeOK, releaseAnyLockedRows, vars
<1>2. UNCHANGED <<usedRows, maxRows, slots, allocSize, rowCapacity, rowsToBlock, readIsAsync,
                  file, srv, strays, range, lastRow, outcome, readCursor, rc, msgPipe,
                  pipeState, pc, lastMsg, client, pipe>>
  BY DEF releaseAnyLockedRows, vars, bufferVars, layoutVars, requestVars, serverVars, historyVars
<1>3. TypeOK'
  BY <1>1, <1>2 DEF IInv, TypeOK
<1>4. QED
  BY <1>2, <1>3
     DEF IInv, NoStrayRead, ControlInv, IdleInv, ServerInv, BlockInv, PipeInv,
         ConsumedInv, OutcomeInv, Served, Working, Quiet

-----------------------------------------------------------------------------
(* The server job. *)

LEMMA MessageTypes ==
  ASSUME NEW p \in Seq(Messages), NEW i \in DOMAIN p
  PROVE  /\ i \in 1 .. Len(p) /\ p[i] \in Messages
         /\ p[i].cum \in 0 .. MaxCapacity /\ p[i].cum \in Nat /\ p[i].rtn \in ApiCodes
<1>1. i \in 1 .. Len(p) /\ p[i] \in Messages
  OBVIOUS
<1>2. QED BY <1>1, MaxCapacityAssumption DEF Messages

LEMMA HaltedIsQuiet == ASSUME srv \in Reads
                       PROVE  /\ Halted \in Reads /\ Halted.phase \notin {"fetch", "post"}
                              /\ Halted.pos = srv.pos /\ Halted.cum = srv.cum
                              /\ Halted.max = srv.max /\ Halted.code = srv.code
  BY DEF Halted, Reads

LEMMA ServerStoresRowStep == ASSUME IInv, ServerStoresRow PROVE IInv'
<1>1. /\ srv.phase = "fetch" /\ srv.pos < range
      /\ slots' = [slots EXCEPT ![srv.cum] = srv.pos + 1]
      /\ usedRows' = srv.cum + 1
      /\ UNCHANGED <<maxRows, allocSize, rowCapacity, rowsToBlock, readIsAsync, file,
                     strays, range, lastRow, outcome, readCursor, rc, msgPipe,
                     pipeState, releaseRowNeeded, pc, lastMsg, client, pipe>>
  BY DEF ServerStoresRow, engineUnchanged, layoutVars, requestVars, historyVars
<1>2. /\ srv.pos \in Nat /\ srv.cum \in Nat /\ srv.max \in Nat /\ range \in Nat
      /\ srv.pos + 1 \in 0 .. NRows /\ srv.cum + 1 \in 0 .. MaxCapacity /\ srv.cum \in Slots
      /\ srv.cum < srv.max
  <2>1. srv.cum < srv.max
    BY <1>1 DEF IInv, ServerInv, Working
  <2>2. QED
    BY <1>1, <2>1, NRowsAssumption, MaxCapacityAssumption DEF IInv, TypeOK, Reads, Slots
<1>3. /\ srv' \in Reads /\ srv'.phase = "post" /\ srv'.cum = srv.cum + 1
      /\ srv'.pos = srv.pos + 1 /\ srv'.max = srv.max
  BY <1>1, <1>2 DEF IInv, TypeOK, Reads, ServerStoresRow
<1>4. client = "open" /\ file /\ readIsAsync /\ rc = "OK" /\ Served
  BY <1>1 DEF IInv, ServerInv, Working, Served
<1>5. TypeOK'
  BY <1>1, <1>2, <1>3, SMTT(60) DEF IInv, TypeOK
<1>6. BlockInv'
  <2>1. readCursor \in Nat /\ lastRow \in Nat /\ rowCapacity \in Nat
    BY MaxCapacityAssumption, NRowsAssumption DEF IInv, TypeOK
  <2>2. \A s \in Slots : s < srv'.cum => slots'[s] + srv'.cum = srv'.pos + s + 1
    <3> SUFFICES ASSUME NEW s \in Slots, s < srv'.cum
                 PROVE  slots'[s] + srv'.cum = srv'.pos + s + 1
      OBVIOUS
    <3>1. s \in Nat /\ slots[s] \in Nat
      BY MaxCapacityAssumption, NRowsAssumption DEF IInv, TypeOK, Slots
    <3>2. CASE s = srv.cum
      <4>1. slots'[s] = srv.pos + 1
        BY <1>1, <1>2, <3>2 DEF IInv, TypeOK
      <4>2. QED BY <1>2, <1>3, <3>2, <4>1
    <3>3. CASE s # srv.cum
      <4>1. slots'[s] = slots[s]
        BY <1>1, <1>2, <3>3 DEF IInv, TypeOK
      <4>2. slots[s] + srv.cum = srv.pos + s + 1
        BY <1>2, <1>3, <1>4, <3>1, <3>3 DEF IInv, BlockInv
      <4>3. QED BY <1>2, <1>3, <3>1, <4>1, <4>2
    <3>4. QED BY <3>2, <3>3
  <2>3. /\ usedRows = srv.cum /\ maxRows = srv.max /\ srv.cum <= srv.pos
        /\ srv.max <= rowCapacity /\ rowsToBlock \in 1 .. rowCapacity
        /\ readCursor <= usedRows /\ lastRow + srv.cum = srv.pos + readCursor
    BY <1>4 DEF IInv, BlockInv
  <2>4. QED
    BY <1>1, <1>2, <1>3, <2>1, <2>2, <2>3 DEF BlockInv
<1>7. PipeInv'
  <2> SUFFICES ASSUME NEW i \in DOMAIN pipe
               PROVE  /\ pipe[i].cum <= srv.cum + 1 /\ pipe[i].cum < srv.max
                      /\ pipe[i].rtn = "OK" /\ pipe[i].cum > 0
    BY <1>1, <1>3 DEF PipeInv, EndCodes
  <2>1. pipe[i].cum <= srv.cum /\ pipe[i].rtn = "OK" /\ pipe[i].cum < srv.max /\ pipe[i].cum > 0
    BY <1>1 DEF IInv, PipeInv, Working
  <2>2. pipe[i].cum \in Nat
    BY MessageTypes DEF IInv, TypeOK
  <2>3. QED BY <1>2, <2>1, <2>2
<1>8. ControlInv'
  <2>1. usedRows = srv.cum /\ maxRows = srv.max
    BY <1>4 DEF IInv, BlockInv
  <2>2. pc # "drain"
    BY <1>2, <2>1 DEF IInv, ControlInv
  <2>3. pc # "load"
    BY <1>1, <1>4, <2>2 DEF IInv, ControlInv, ConsumedInv, Quiet, Working
  <2>4. readCursor < usedRows => readCursor < usedRows'
    BY <1>1, <1>2, <2>1, MaxCapacityAssumption DEF IInv, TypeOK
  <2>5. QED BY <1>1, <2>2, <2>3, <2>4 DEF IInv, ControlInv
<1>9. IdleInv' /\ ServerInv' /\ NoStrayRead'
  BY <1>1, <1>2, <1>3, <1>4 DEF IInv, IdleInv, ServerInv, NoStrayRead, Working, Quiet
<1>10. ConsumedInv' /\ OutcomeInv'
  BY <1>1, <1>3, <1>4 DEF IInv, ConsumedInv, OutcomeInv, Served, Working, Quiet, EndOfData
<1>11. QED BY <1>5, <1>6, <1>7, <1>8, <1>9, <1>10 DEF IInv

otherThanServerAndPipe ==
  <<usedRows, maxRows, slots, allocSize, rowCapacity, rowsToBlock, readIsAsync, file,
    strays, range, lastRow, outcome, readCursor, rc, msgPipe, pipeState,
    releaseRowNeeded, pc, lastMsg, client>>

(* A job may stop wherever it is. *)
LEMMA ServerStopsStep ==
  ASSUME IInv, srv' \in Reads, srv'.phase \notin {"fetch", "post"},
         srv'.pos = srv.pos, srv'.cum = srv.cum, srv'.max = srv.max,
         UNCHANGED otherThanServerAndPipe, UNCHANGED pipe
  PROVE  IInv'
<1>1. TypeOK' /\ NoStrayRead' /\ ControlInv' /\ ServerInv'
  BY DEF IInv, TypeOK, NoStrayRead, ControlInv, ServerInv, Working, otherThanServerAndPipe
<1>2. BlockInv'
  BY DEF IInv, BlockInv, Served, otherThanServerAndPipe
<1>3. PipeInv'
  BY DEF IInv, PipeInv, Working, otherThanServerAndPipe
<1>4. IdleInv' /\ ConsumedInv' /\ OutcomeInv'
  BY DEF IInv, IdleInv, ConsumedInv, OutcomeInv, Quiet, Working, Served, otherThanServerAndPipe
<1>5. QED BY <1>1, <1>2, <1>3, <1>4 DEF IInv

(* A job at work posts a message about what it has stored, and stops with  *)
(* the last one.                                                           *)
LEMMA ServerSendsStep ==
  ASSUME IInv, Working, NEW r \in ApiCodes,
         pipe' = Append(pipe, [rtn |-> r, cum |-> srv.cum]),
         srv' \in Reads, srv'.pos = srv.pos, srv'.cum = srv.cum, srv'.max = srv.max,
         srv'.phase \in {"idle", "fetch"},
         srv'.phase = "fetch" => r = "OK" /\ srv.cum < srv.max,
         r \in EndCodes => srv.pos = range,
         r = "OK" => srv.cum > 0,
         UNCHANGED otherThanServerAndPipe
  PROVE  IInv'
<1> DEFINE m == [rtn |-> r, cum |-> srv.cum]
<1>1. pipe \in Seq(Messages) /\ m \in Messages
  BY DEF IInv, TypeOK, Reads, Messages
<1>2. /\ client = "open" /\ file /\ readIsAsync /\ rc = "OK" /\ Served
      /\ pipeState = "ConsumedFullBufferMsg" => pc = "read"
  BY DEF IInv, ServerInv, ConsumedInv, Served, Quiet
<1>3. TypeOK' /\ NoStrayRead' /\ ControlInv'
  BY <1>1 DEF IInv, TypeOK, NoStrayRead, ControlInv, otherThanServerAndPipe
<1>4. BlockInv'
  BY DEF IInv, BlockInv, Served, otherThanServerAndPipe
<1>5. PipeInv'
  <2> SUFFICES ASSUME NEW i \in DOMAIN pipe'
               PROVE  /\ pipe'[i].cum <= srv.cum
                      /\ pipe'[i].rtn \in EndCodes => srv.pos = range
                      /\ pipe'[i].rtn = "OK" => pipe'[i].cum > 0
                      /\ i < Len(pipe') \/ Working' => pipe'[i].rtn = "OK" /\ pipe'[i].cum < srv.max
    BY DEF PipeInv, otherThanServerAndPipe
  <2>1. /\ i \in 1 .. Len(pipe) + 1 /\ Len(pipe') = Len(pipe) + 1 /\ Len(pipe) \in Nat
        /\ i \in DOMAIN pipe => pipe'[i] = pipe[i]
        /\ pipe'[Len(pipe) + 1] = m
    BY <1>1
  <2>2. CASE i \in DOMAIN pipe
    BY <2>1, <2>2 DEF IInv, PipeInv
  <2>3. CASE i = Len(pipe) + 1
    <3>1. pipe'[i].cum = srv.cum /\ pipe'[i].rtn = r /\ ~(i < Len(pipe'))
      BY <2>1, <2>3
    <3>2. srv.cum \in Nat
      BY MaxCapacityAssumption DEF IInv, TypeOK, Reads
    <3>3. Working' => r = "OK" /\ srv.cum < srv.max
      BY DEF Working
    <3>4. QED BY <3>1, <3>2, <3>3
  <2>4. QED BY <1>1, <2>1, <2>2, <2>3
<1>6. ServerInv'
  BY <1>2, MaxCapacityAssumption DEF IInv, ServerInv, Working, otherThanServerAndPipe
<1>7. IdleInv' /\ ConsumedInv' /\ OutcomeInv'
  BY <1>2 DEF IInv, IdleInv, ConsumedInv, OutcomeInv, Quiet, Working, Served,
              otherThanServerAndPipe, EndOfData
<1>8. QED BY <1>3, <1>4, <1>5, <1>6, <1>7 DEF IInv

LEMMA ServerStep ==
  ASSUME IInv, Server \/ ServerDies \/ StrayStoresRow
  PROVE  IInv'
<1>1. srv \in Reads
  BY DEF IInv, TypeOK
<1>2. CASE ServerStoresRow
  BY <1>2, ServerStoresRowStep
<1>3. CASE ServerPosts /\ msgPipe
  <2>1. PICK r \in IF srv.cum = srv.max THEN {"OK", "QMY_END_OF_BLOCK"} ELSE {"OK"} :
               pipe' = Append(pipe, [rtn |-> r, cum |-> srv.cum])
    BY <1>3 DEF ServerPosts
  <2>2. /\ srv' \in Reads /\ srv'.pos = srv.pos /\ srv'.cum = srv.cum /\ srv'.max = srv.max
        /\ srv'.phase = IF srv.cum = srv.max THEN "idle" ELSE "fetch"
    BY <1>1, <1>3 DEF ServerPosts, Reads
  <2>3. srv.cum \in Nat /\ srv.max \in Nat /\ srv.cum <= srv.max /\ srv.cum > 0
    BY <1>1, <1>3, MaxCapacityAssumption DEF Reads, IInv, ServerInv, Working, ServerPosts
  <2>4. Working /\ UNCHANGED otherThanServerAndPipe
    BY <1>3 DEF ServerPosts, Working, otherThanServerAndPipe, engineUnchanged, layoutVars,
                requestVars, historyVars
  <2>5. r \in ApiCodes /\ r \notin EndCodes /\ (srv'.phase = "fetch" => r = "OK" /\ srv.cum < srv.max)
    BY <2>1, <2>2, <2>3 DEF ApiCodes, EndCodes
  <2>6. QED
    BY <2>1, <2>2, <2>3, <2>4, <2>5, ServerSendsStep
<1>4. CASE ServerEnds /\ msgPipe
  <2>1. PICK r \in IF srv.pos = range THEN {srv.code, "QMY_OTHER"} ELSE {"QMY_OTHER"} :
               pipe' = Append(pipe, [rtn |-> r, cum |-> srv.cum])
    BY <1>4 DEF ServerEnds
  <2>2. /\ srv' \in Reads /\ srv'.pos = srv.pos /\ srv'.cum = srv.cum /\ srv'.max = srv.max
        /\ srv'.phase = "idle"
    BY <1>1, <1>4 DEF ServerEnds, Reads, Halted
  <2>3. Working /\ UNCHANGED otherThanServerAndPipe
    BY <1>4 DEF ServerEnds, Working, otherThanServerAndPipe, engineUnchanged, layoutVars,
                requestVars, historyVars
  <2>4. r \in ApiCodes /\ r # "OK" /\ (r \in EndCodes => srv.pos = range)
    BY <1>1, <2>1 DEF ApiCodes, EndCodes, Reads
  <2>5. QED
    BY <2>1, <2>2, <2>3, <2>4, ServerSendsStep
<1>5. CASE (ServerPosts \/ ServerEnds) /\ ~msgPipe
  <2>1. srv' = Halted /\ UNCHANGED otherThanServerAndPipe /\ UNCHANGED pipe
    BY <1>5 DEF ServerPosts, ServerEnds, otherThanServerAndPipe, engineUnchanged, layoutVars,
                requestVars, historyVars
  <2>2. QED BY <1>1, <2>1, HaltedIsQuiet, ServerStopsStep
<1>6. CASE ServerDies
  <2>1. /\ srv' \in Reads /\ srv'.pos = srv.pos /\ srv'.cum = srv.cum /\ srv'.max = srv.max
        /\ srv'.phase = "dead"
    BY <1>1, <1>6 DEF ServerDies, Reads
  <2>2. UNCHANGED otherThanServerAndPipe /\ UNCHANGED pipe
    BY <1>6 DEF ServerDies, otherThanServerAndPipe, engineUnchanged, layoutVars,
                requestVars, historyVars
  <2>3. QED BY <2>1, <2>2, ServerStopsStep
<1>7. ~StrayStoresRow
  BY DEF IInv, NoStrayRead, StrayStoresRow
<1>8. msgPipe \in BOOLEAN
  BY DEF IInv, TypeOK
<1>9. QED BY <1>2, <1>3, <1>4, <1>5, <1>6, <1>7, <1>8 DEF Server

-----------------------------------------------------------------------------
(* The calls between reads. *)

(* A read the job is still at is one that interruptRead interrupts. *)
LEMMA NothingIsLeft == ASSUME IInv, leaveRead PROVE strays' = {}
<1>1. CASE srv.phase = "fetch"
  <2>1. /\ client = "open" /\ file /\ readIsAsync /\ rc = "OK" /\ Served /\ srv.cum < srv.max
    BY <1>1 DEF IInv, ServerInv, Working, Served
  <2>2. usedRows = srv.cum /\ srv.max <= rowCapacity
    BY <2>1 DEF IInv, BlockInv
  <2>3. usedRows \in Nat /\ srv.max \in Nat /\ rowCapacity \in Nat
    BY MaxCapacityAssumption DEF IInv, TypeOK, Reads
  <2>4. usedRows < rowCapacity
    BY <2>1, <2>2, <2>3
  <2>5. Interrupts
    BY <2>1, <2>4 DEF Interrupts
  <2>6. QED BY <2>5 DEF leaveRead, IInv, NoStrayRead
<1>2. CASE srv.phase # "fetch"
  BY <1>2 DEF leaveRead, CanStore, IInv, NoStrayRead
<1>3. QED BY <1>1, <1>2

LEMMA EndReadStep == ASSUME IInv, endRead PROVE IInv'
<1>1. /\ pc = "idle" /\ pc' = "idle" /\ client' = "closed" /\ pipe' = <<>>
      /\ leaveRead /\ srv' = Halted
      /\ UNCHANGED <<usedRows, maxRows, slots, allocSize, rowCapacity, rowsToBlock, readIsAsync,
                     range, lastRow, outcome, readCursor, rc, pipeState,
                     releaseRowNeeded, lastMsg>>
  BY DEF endRead, interruptRead, closePipe, bufferVars, layoutVars, historyVars
<1>2. strays' = {} /\ srv \in Reads
  BY <1>1, NothingIsLeft DEF IInv, TypeOK
<1>3. srv' \in Reads /\ srv'.phase \notin {"fetch", "post"}
  BY <1>1, <1>2, HaltedIsQuiet
<1>4. TypeOK'
  <2>1. msgPipe' \in BOOLEAN /\ file' \in BOOLEAN
    BY DEF endRead, interruptRead, closePipe
  <2>2. QED BY <1>1, <1>2, <1>3, <2>1 DEF IInv, TypeOK
<1>5. PipeInv' /\ NoStrayRead' /\ ServerInv' /\ IdleInv'
  BY <1>1, <1>2, <1>3 DEF PipeInv, NoStrayRead, ServerInv, IdleInv, Working, Quiet
<1>6. ControlInv' /\ BlockInv' /\ ConsumedInv' /\ OutcomeInv'
  BY <1>1 DEF ControlInv, BlockInv, ConsumedInv, OutcomeInv, Served
<1>7. QED BY <1>4, <1>5, <1>6 DEF IInv

LEMMA AllocBufStep ==
  ASSUME IInv, EndReadFirst = TRUE, NEW rows \in 1 .. MaxCapacity, allocBuf(rows)
  PROVE  IInv'
<1>1. /\ pc = "idle" /\ pc' = "idle" /\ client # "open" /\ client' = "prepared"
      /\ allocSize' \in {rows, allocSize} /\ slots' \in {EmptySlots, slots}
      /\ rowCapacity' = rows /\ readCursor' = 0 /\ rc' = "OK" /\ usedRows' = 0
      /\ UNCHANGED <<maxRows, rowsToBlock, readIsAsync, file, pipeState, releaseRowNeeded,
                     lastMsg, range, lastRow, outcome>>
  BY DEF allocBuf, rewind, requestVars, historyVars
<1>2. Quiet /\ srv \in Reads /\ strays = {}
  BY <1>1 DEF IInv, IdleInv, TypeOK, NoStrayRead
<1>3. interruptRead \/ UNCHANGED <<srv, strays, msgPipe, pipe>>
  BY DEF allocBuf, serverVars
<1>4. pipe' = <<>> /\ srv' \in Reads /\ srv'.phase \notin {"fetch", "post"} /\ strays' = {}
  BY <1>2, <1>3, HaltedIsQuiet, NothingIsLeft DEF interruptRead, closePipe, Quiet, Working
<1>5. msgPipe' \in BOOLEAN
  BY <1>3 DEF interruptRead, closePipe, IInv, TypeOK
<1>6. slots' \in [Slots -> 0 .. NRows]
  BY <1>1, NRowsAssumption DEF EmptySlots, IInv, TypeOK
<1>7. TypeOK'
  BY <1>1, <1>4, <1>5, <1>6, MaxCapacityAssumption DEF IInv, TypeOK, Codes
<1>8. QED
  BY <1>1, <1>4, <1>7
     DEF IInv, NoStrayRead, ControlInv, IdleInv, ServerInv, BlockInv, PipeInv,
         ConsumedInv, OutcomeInv, Served, Working, Quiet

LEMMA NewReadRequestWithoutPipeStep ==
  ASSUME IInv, NEW rows \in 1 .. MaxCapacity, NEW n \in 0 .. NRows,
         newReadRequestWithoutPipe(rows, n)
  PROVE  IInv'
<1>1. /\ pc = "idle" /\ pc' = "idle" /\ client = "prepared" /\ client' = "open"
      /\ rc' = "ERRNO" /\ range' = n /\ lastRow' = 0 /\ outcome' = "none"
      /\ leaveRead /\ srv' = Halted /\ msgPipe' = FALSE /\ pipe' = <<>>
      /\ UNCHANGED <<usedRows, maxRows, slots, allocSize, rowCapacity, readCursor, rowsToBlock,
                     readIsAsync, file, pipeState, releaseRowNeeded, lastMsg>>
  BY DEF newReadRequestWithoutPipe, interruptRead, closePipe, bufferVars, layoutVars, requestVars
<1>2. strays' = {} /\ srv \in Reads
  BY <1>1, NothingIsLeft DEF IInv, TypeOK
<1>3. srv' \in Reads /\ srv'.phase \notin {"fetch", "post"}
  BY <1>1, <1>2, HaltedIsQuiet
<1>4. usedRows = 0 /\ readCursor = 0
  BY <1>1 DEF IInv, IdleInv
<1>5. TypeOK'
  <2>1. msgPipe' \in BOOLEAN
    BY DEF newReadRequestWithoutPipe, interruptRead, closePipe
  <2>2. QED BY <1>1, <1>2, <1>3, <2>1, NRowsAssumption DEF IInv, TypeOK, Codes
<1>6. PipeInv' /\ NoStrayRead' /\ ServerInv' /\ IdleInv'
  BY <1>1, <1>2, <1>3, <1>4 DEF PipeInv, NoStrayRead, ServerInv, IdleInv, Working, Quiet
<1>7. ControlInv' /\ BlockInv' /\ ConsumedInv' /\ OutcomeInv'
  BY <1>1 DEF ControlInv, BlockInv, ConsumedInv, OutcomeInv, Served, EndOfData
<1>8. QED BY <1>5, <1>6, <1>7 DEF IInv

-----------------------------------------------------------------------------
(* Requests for rows. *)

LEMMA SyncAnswersFacts ==
  ASSUME NEW m \in 0 .. MaxCapacity, NEW n \in 0 .. NRows, NEW p \in 0 .. n, NEW c \in EndCodes,
         NEW a \in SyncAnswers(m, p, n, c)
  PROVE  /\ a[1] \in 0 .. m /\ p + a[1] <= n
         /\ a[2] \in EndOfData \cup {"OK", "QMY_OTHER"}
         /\ a[2] \in EndOfData => p + a[1] = n
<1> DEFINE got == Minimum(m, n - p)
<1>1. got \in 0 .. m /\ p + got <= n
  BY NRowsAssumption, MaxCapacityAssumption DEF Minimum
<1>2. translateErrorCode(c) \in EndOfData
  BY DEF EndCodes, EndOfData, translateErrorCode
<1>3. \/ a = <<got, "OK">>
      \/ a = <<got, translateErrorCode(c)>> /\ p + got = n
      \/ a = <<0, "QMY_OTHER">>
  BY DEF SyncAnswers
<1>4. CASE a = <<got, "OK">>
  BY <1>1, <1>4 DEF EndOfData
<1>5. CASE a = <<got, translateErrorCode(c)>> /\ p + got = n
  BY <1>1, <1>2, <1>5
<1>6. CASE a = <<0, "QMY_OTHER">>
  BY <1>6, NRowsAssumption, MaxCapacityAssumption DEF EndOfData
<1>7. QED BY <1>3, <1>4, <1>5, <1>6

(* What a request answers, and the block it leaves or starts. *)
LEMMA BridgeReadFacts ==
  ASSUME NEW m \in 0 .. MaxCapacity, NEW isAsync \in BOOLEAN,
         NEW n \in 0 .. NRows, NEW p \in 0 .. n,
         NEW c \in EndCodes, NEW r, srv \in Reads, slots \in [Slots -> 0 .. NRows],
         BridgeRead(m, isAsync, p, n, c, r)
  PROVE  /\ srv' \in Reads /\ srv'.max = m /\ usedRows' = srv'.cum /\ srv'.cum <= m
         /\ srv'.pos = p + srv'.cum /\ srv'.pos <= n
         /\ slots' \in [Slots -> 0 .. NRows]
         /\ \A s \in Slots : s < srv'.cum => slots'[s] + srv'.cum = srv'.pos + s + 1
         /\ srv'.phase \in {"fetch", "post"} => isAsync /\ r = "OK" /\ srv'.cum = 0
         /\ srv'.phase # "post"
         /\ r \in EndOfData \cup {"OK", "QMY_OTHER"}
         /\ r \in EndOfData => srv'.pos = n
<1>1. p \in 0 .. NRows /\ 0 \in 0 .. MaxCapacity /\ 0 <= m /\ p <= n /\ p = p + 0
  BY NRowsAssumption, MaxCapacityAssumption
<1>2. \A s \in Slots : s \in 0 .. MaxCapacity - 1 /\ s \in Nat /\ ~(s < 0)
  BY MaxCapacityAssumption DEF Slots
<1>3. CASE /\ r = "QMY_OTHER"
           /\ srv' = [phase |-> Halted.phase, pos |-> p, cum |-> 0, max |-> m, code |-> c]
           /\ usedRows' = 0 /\ UNCHANGED slots
  <2>1. Halted.phase \in {"idle", "dead"}
    BY DEF Halted, Reads
  <2>2. srv' \in Reads
    BY <1>1, <1>3, <2>1 DEF Reads
  <2>3. QED BY <1>1, <1>2, <1>3, <2>1, <2>2 DEF EndOfData
<1>4. CASE /\ isAsync /\ r = "OK"
           /\ srv' = [phase |-> "fetch", pos |-> p, cum |-> 0, max |-> m, code |-> c]
           /\ usedRows' = 0 /\ UNCHANGED slots
  <2>1. srv' \in Reads
    BY <1>1, <1>4 DEF Reads
  <2>2. QED BY <1>1, <1>2, <1>4, <2>1 DEF EndOfData
<1>5. CASE \E a \in SyncAnswers(m, p, n, c) :
             /\ r = a[2] /\ usedRows' = a[1]
             /\ srv' = [phase |-> "idle", pos |-> p + a[1], cum |-> a[1], max |-> m, code |-> c]
             /\ slots' = [s \in Slots |-> IF s < a[1] THEN p + s + 1 ELSE slots[s]]
  <2>1. PICK a \in SyncAnswers(m, p, n, c) :
             /\ r = a[2] /\ usedRows' = a[1]
             /\ srv' = [phase |-> "idle", pos |-> p + a[1], cum |-> a[1], max |-> m, code |-> c]
             /\ slots' = [s \in Slots |-> IF s < a[1] THEN p + s + 1 ELSE slots[s]]
    BY <1>5
  <2>2. /\ a[1] \in 0 .. m /\ p + a[1] <= n /\ r \in EndOfData \cup {"OK", "QMY_OTHER"}
        /\ r \in EndOfData => p + a[1] = n
    BY <2>1, SyncAnswersFacts
  <2>3. p + a[1] \in 0 .. NRows /\ a[1] \in 0 .. MaxCapacity /\ a[1] \in Nat
    BY <2>2, NRowsAssumption, MaxCapacityAssumption
  <2>4. srv' \in Reads
    BY <2>1, <2>3 DEF Reads
  <2>5. slots' \in [Slots -> 0 .. NRows]
    <3> SUFFICES ASSUME NEW s \in Slots, s < a[1] PROVE p + s + 1 \in 0 .. NRows
      BY <2>1
    <3>1. QED BY <1>2, <2>2, <2>3, NRowsAssumption
  <2>6. \A s \in Slots : s < srv'.cum => slots'[s] + srv'.cum = srv'.pos + s + 1
    <3> SUFFICES ASSUME NEW s \in Slots, s < a[1]
                 PROVE  (p + s + 1) + a[1] = (p + a[1]) + s + 1
      BY <2>1
    <3>1. QED BY <1>2, <2>3
  <2>7. QED BY <1>1, <2>1, <2>2, <2>3, <2>4, <2>5, <2>6
<1>6. QED BY <1>3, <1>4, <1>5 DEF BridgeRead

LEMMA NewReadRequestStep ==
  ASSUME IInv, NEW rows \in 1 .. MaxCapacity, NEW useAsync \in AsyncModes,
         NEW n \in 0 .. NRows, NEW c \in EndCodes, newReadRequest(rows, useAsync, n, c)
  PROVE  IInv'
<1> DEFINE isAsync == useAsync /\ rows > 1
<1>1. /\ pc = "idle" /\ pc' = "idle" /\ client' = "open" /\ pipe' = <<>>
      /\ rows \in 1 .. rowCapacity /\ leaveRead
      /\ range' = n /\ lastRow' = 0 /\ outcome' = "none"
      /\ rowsToBlock' = rows /\ readCursor' = 0 /\ maxRows' = 1
      /\ UNCHANGED <<allocSize, rowCapacity, lastMsg>>
  BY DEF newReadRequest, layoutVars, blockSizes
<1>2. /\ isAsync \in BOOLEAN /\ srv \in Reads /\ slots \in [Slots -> 0 .. NRows]
      /\ 1 \in 0 .. MaxCapacity /\ 0 \in 0 .. n
  BY AsyncModesAssumption, MaxCapacityAssumption, NRowsAssumption DEF IInv, TypeOK
<1> HIDE DEF isAsync
<1>3. PICK r \in Codes :
           /\ BridgeRead(1, isAsync, 0, n, c, r)
           /\ rc' = IF r = "QMY_KEY_NOT_FOUND" /\ usedRows' > 0 THEN "HA_END_OF_FILE"
                    ELSE IF r \in EndCodes THEN translateErrorCode(r) ELSE r
           /\ releaseRowNeeded' = (r \notin EndCodes)
  BY DEF newReadRequest, isAsync
<1>4. /\ srv' \in Reads /\ srv'.max = 1 /\ usedRows' = srv'.cum /\ srv'.cum <= 1
      /\ srv'.pos = 0 + srv'.cum /\ srv'.pos <= n
      /\ slots' \in [Slots -> 0 .. NRows]
      /\ \A s \in Slots : s < srv'.cum => slots'[s] + srv'.cum = srv'.pos + s + 1
      /\ srv'.phase \in {"fetch", "post"} => isAsync /\ r = "OK" /\ srv'.cum = 0
      /\ srv'.phase # "post"
      /\ r \in EndOfData \cup {"OK", "QMY_OTHER"}
      /\ r \in EndOfData => srv'.pos = n
  BY <1>2, <1>3, BridgeReadFacts
<1>5. rc' = r /\ rc' \in Codes /\ rc' # "ERRNO"
  BY <1>3, <1>4 DEF EndCodes, EndOfData, Codes
<1>6. /\ msgPipe' \in BOOLEAN /\ file' \in BOOLEAN /\ readIsAsync' \in BOOLEAN
      /\ releaseRowNeeded' \in BOOLEAN
      /\ pipeState' \in {"Untouched", "PendingFullBufferMsg", "ConsumedFullBufferMsg"}
  BY <1>2, <1>3 DEF newReadRequest, IInv, TypeOK, isAsync
<1>7. strays' = {}
  BY <1>1, NothingIsLeft
<1>8. /\ rows \in 0 .. MaxCapacity /\ usedRows' \in 0 .. MaxCapacity /\ 0 \in 0 .. NRows
      /\ srv'.cum \in Nat /\ srv'.pos = srv'.cum /\ rowCapacity \in Nat /\ 1 <= rowCapacity
  BY <1>1, <1>4, NRowsAssumption, MaxCapacityAssumption DEF IInv, TypeOK, Reads
<1>9. TypeOK'
  <2>1. /\ pc' = "idle" /\ client' = "open" /\ pipe' = <<>> /\ outcome' = "none"
        /\ srv' \in Reads /\ slots' \in [Slots -> 0 .. NRows]
        /\ maxRows' \in 0 .. MaxCapacity /\ rowsToBlock' \in 0 .. MaxCapacity
        /\ readCursor' \in 0 .. MaxCapacity
        /\ range' \in 0 .. NRows /\ lastRow' \in 0 .. NRows
        /\ UNCHANGED <<allocSize, rowCapacity, lastMsg>>
    BY <1>1, <1>2, <1>4, <1>8, MaxCapacityAssumption
  <2>2. QED BY <1>5, <1>6, <1>7, <1>8, <2>1 DEF IInv, TypeOK
<1>10. BlockInv'
  BY <1>1, <1>4, <1>8 DEF BlockInv
<1>11. /\ file' /\ (readIsAsync' => pipeState' = "Untouched")
       /\ Working' => readIsAsync' /\ r = "OK" /\ srv'.cum = 0
  BY <1>4 DEF newReadRequest, Working, isAsync
<1>12. PipeInv' /\ NoStrayRead' /\ IdleInv' /\ ControlInv'
  BY <1>1, <1>5, <1>7, <1>11 DEF PipeInv, NoStrayRead, IdleInv, ControlInv, Quiet
<1>13. ServerInv'
  BY <1>1, <1>4, <1>5, <1>11 DEF ServerInv
<1>14. ConsumedInv' /\ OutcomeInv'
  BY <1>1, <1>4, <1>5, <1>11 DEF ConsumedInv, OutcomeInv
<1>15. QED BY <1>9, <1>10, <1>12, <1>13, <1>14 DEF IInv

LEMMA LoadNewRowsStep == ASSUME IInv, loadNewRows PROVE IInv'
<1>1. /\ pc = "load" /\ readCursor' = 0 /\ maxRows' = rowsToBlock
      /\ UNCHANGED <<allocSize, rowCapacity, rowsToBlock, readIsAsync, file, client, strays,
                     range, pipeState, lastMsg, lastRow, outcome>>
  BY DEF loadNewRows, readerUnchanged, layoutVars, requestVars
<1>2. /\ client = "open" /\ rc = "OK" /\ Served /\ readCursor = usedRows
      /\ pipe = <<>>
  BY <1>1 DEF IInv, ControlInv, ConsumedInv, IdleInv, Served, Quiet
<1>3. /\ usedRows = srv.cum /\ srv.pos <= range /\ rowsToBlock \in 1 .. rowCapacity
      /\ lastRow + srv.cum = srv.pos + readCursor
  BY <1>2 DEF IInv, BlockInv
<1>4. /\ rowsToBlock \in 0 .. MaxCapacity /\ readIsAsync \in BOOLEAN /\ range \in 0 .. NRows
      /\ srv \in Reads /\ slots \in [Slots -> 0 .. NRows] /\ srv.code \in EndCodes
      /\ srv.pos \in 0 .. range /\ srv.pos \in Nat /\ srv.cum \in Nat /\ lastRow \in Nat
      /\ lastRow = srv.pos /\ rowCapacity \in Nat
  BY <1>2, <1>3, NRowsAssumption, MaxCapacityAssumption DEF IInv, TypeOK, Reads
<1>5. PICK r \in Codes : /\ BridgeRead(rowsToBlock, readIsAsync, srv.pos, range, srv.code, r)
                         /\ checkReturnCode(r)
  BY DEF loadNewRows
<1>6. /\ srv' \in Reads /\ srv'.max = rowsToBlock /\ usedRows' = srv'.cum
      /\ srv'.cum <= rowsToBlock /\ srv'.pos = srv.pos + srv'.cum /\ srv'.pos <= range
      /\ slots' \in [Slots -> 0 .. NRows]
      /\ \A s \in Slots : s < srv'.cum => slots'[s] + srv'.cum = srv'.pos + s + 1
      /\ srv'.phase \in {"fetch", "post"} => readIsAsync /\ r = "OK" /\ srv'.cum = 0
      /\ srv'.phase # "post"
      /\ r \in EndOfData \cup {"OK", "QMY_OTHER"}
      /\ r \in EndOfData => srv'.pos = range
  BY <1>4, <1>5, BridgeReadFacts
<1>7. rc' = r /\ rc' \in Codes /\ rc' # "ERRNO" /\ releaseRowNeeded' \in BOOLEAN
  BY <1>5, <1>6 DEF checkReturnCode, EndCodes, EndOfData, Codes
<1>8. /\ pipe' = <<>> /\ msgPipe' \in BOOLEAN
      /\ pc' \in {"read", "loop"} /\ (pc' = "read" => readIsAsync /\ r = "OK")
      /\ readIsAsync /\ r = "OK" => pc' = "read"
  BY <1>2, <1>7 DEF loadNewRows, closePipe, IInv, TypeOK
<1>9. TypeOK'
  <2>1. /\ usedRows' \in 0 .. MaxCapacity /\ 0 \in 0 .. MaxCapacity
    BY <1>4, <1>6, MaxCapacityAssumption DEF Reads
  <2>2. QED BY <1>1, <1>4, <1>6, <1>7, <1>8, <2>1, SMTT(60) DEF IInv, TypeOK
<1>10. BlockInv'
  <2>1. srv'.cum \in Nat /\ srv'.pos \in Nat /\ rowsToBlock \in Nat
    BY <1>4, <1>6, NRowsAssumption, MaxCapacityAssumption DEF Reads
  <2>2. /\ usedRows' = srv'.cum /\ maxRows' = srv'.max /\ srv'.cum <= srv'.max
        /\ srv'.cum <= srv'.pos /\ srv'.pos <= range' /\ srv'.max <= rowCapacity'
        /\ rowsToBlock' \in 1 .. rowCapacity' /\ readCursor' <= usedRows'
        /\ lastRow' + srv'.cum = srv'.pos + readCursor'
    BY <1>1, <1>3, <1>4, <1>6, <2>1
  <2>3. QED BY <1>6, <2>2 DEF BlockInv
<1>11. PipeInv' /\ NoStrayRead' /\ ControlInv'
  BY <1>1, <1>2, <1>7, <1>8 DEF IInv, PipeInv, NoStrayRead, ControlInv
<1>12. ServerInv'
  <2> SUFFICES ASSUME Working'
               PROVE  client' = "open" /\ file' /\ readIsAsync' /\ rc' = "OK" /\ 0 < rowsToBlock
                      /\ srv'.cum = 0 /\ srv'.max = rowsToBlock
    BY <1>4, <1>6 DEF ServerInv
  <2>1. readIsAsync /\ r = "OK" /\ srv'.cum = 0
    BY <1>6 DEF Working
  <2>2. file'
    BY <1>1, <1>2 DEF IInv, ControlInv
  <2>3. QED BY <1>1, <1>2, <1>3, <1>4, <1>6, <1>7, <2>1, <2>2
<1>13. IdleInv' /\ ConsumedInv' /\ OutcomeInv'
  BY <1>1, <1>2, <1>6, <1>7, <1>8
     DEF IInv, IdleInv, ConsumedInv, OutcomeInv, Served, Quiet, Working
<1>14. QED BY <1>9, <1>10, <1>11, <1>12, <1>13 DEF IInv

-----------------------------------------------------------------------------
(* The pipe. *)

LEMMA BatchFacts ==
  ASSUME pipe \in Seq(Messages), pipe # <<>>
  PROVE  /\ batch \in 1 .. Len(pipe) /\ fetched = pipe[batch] /\ unread \in Seq(Messages)
         /\ Len(unread) = Len(pipe) - batch
         /\ \A i \in DOMAIN unread : batch + i \in DOMAIN pipe /\ unread[i] = pipe[batch + i]
<1>1. Len(pipe) \in Nat /\ Len(pipe) > 0
  OBVIOUS
<1>2. batch \in 1 .. Len(pipe)
  BY <1>1, BatchSizeAssumption DEF batch, Minimum
<1> DEFINE b == batch
<1> HIDE DEF b
<1>3. unread = SubSeq(pipe, b + 1, Len(pipe))
  BY DEF unread, b
<1>4. b \in 1 .. Len(pipe)
  BY <1>2 DEF b
<1>5. unread \in Seq(Messages) /\ Len(unread) = Len(pipe) - b
  BY <1>1, <1>3, <1>4
<1>6. \A i \in DOMAIN unread : b + i \in DOMAIN pipe /\ unread[i] = pipe[b + i]
  BY <1>1, <1>3, <1>4
<1>7. QED BY <1>2, <1>5, <1>6 DEF b, fetched

(* A message that ends the block is the last one, of a job that is done;   *)
(* what is left in the pipe says what it said before.                      *)
LEMMA FetchedFacts ==
  ASSUME IInv, pipe # <<>>
  PROVE  /\ fetched.rtn \in ApiCodes /\ fetched.cum \in 0 .. MaxCapacity /\ fetched.cum <= srv.cum
         /\ fetched.rtn \in EndCodes => srv.pos = range
         /\ fetched.rtn = "OK" => fetched.cum > 0
         /\ fetched.rtn # "OK" \/ ~(fetched.cum < srv.max) => ~Working /\ unread = <<>>
         /\ unread \in Seq(Messages)
         /\ \A i \in DOMAIN unread :
              /\ unread[i].cum <= srv.cum
              /\ unread[i].rtn \in EndCodes => srv.pos = range
              /\ unread[i].rtn = "OK" => unread[i].cum > 0
              /\ i < Len(unread) \/ Working => unread[i].rtn = "OK" /\ unread[i].cum < srv.max
<1>1. pipe \in Seq(Messages)
  BY DEF IInv, TypeOK
<1>2. /\ batch \in 1 .. Len(pipe) /\ fetched = pipe[batch] /\ unread \in Seq(Messages)
      /\ Len(unread) = Len(pipe) - batch
      /\ \A i \in DOMAIN unread : batch + i \in DOMAIN pipe /\ unread[i] = pipe[batch + i]
  BY <1>1, BatchFacts
<1>3. batch \in DOMAIN pipe /\ Len(pipe) \in Nat /\ Len(unread) \in Nat
  BY <1>1, <1>2
<1>4. fetched.rtn \in ApiCodes /\ fetched.cum \in 0 .. MaxCapacity
  BY <1>1, <1>2, <1>3, MessageTypes
<1>5. /\ fetched.cum <= srv.cum
      /\ fetched.rtn \in EndCodes => srv.pos = range
      /\ fetched.rtn = "OK" => fetched.cum > 0
      /\ batch < Len(pipe) \/ Working => fetched.rtn = "OK" /\ fetched.cum < srv.max
  BY <1>2, <1>3 DEF IInv, PipeInv
<1>6. batch = Len(pipe) => unread = <<>>
  BY <1>2, <1>3
<1>7. ASSUME NEW i \in DOMAIN unread
      PROVE  /\ unread[i].cum <= srv.cum
             /\ unread[i].rtn \in EndCodes => srv.pos = range
             /\ unread[i].rtn = "OK" => unread[i].cum > 0
             /\ i < Len(unread) \/ Working => unread[i].rtn = "OK" /\ unread[i].cum < srv.max
  <2>1. i \in Nat /\ (i < Len(unread) => batch + i < Len(pipe))
    BY <1>2, <1>3
  <2>2. QED BY <1>2, <2>1 DEF IInv, PipeInv
<1>8. QED BY <1>2, <1>3, <1>4, <1>5, <1>6, <1>7

LEMMA DrainPipeStep == ASSUME IInv, drainPipe PROVE IInv'
<1>1. /\ pc = "drain"
      /\ UNCHANGED <<usedRows, maxRows, slots, allocSize, rowCapacity, rowsToBlock, readIsAsync,
                     file, client, strays, range, readCursor, rc, msgPipe, releaseRowNeeded,
                     lastMsg, srv, lastRow, outcome>>
  BY DEF drainPipe, readerUnchanged, bufferVars, layoutVars, requestVars
<1>2. client = "open" /\ rc = "OK" /\ Served /\ readIsAsync /\ readCursor = usedRows
  BY <1>1 DEF IInv, ControlInv, Served
<1>3. maxRows = srv.max /\ maxRows \in Nat
  BY <1>2, MaxCapacityAssumption DEF IInv, BlockInv, TypeOK
<1>4. CASE /\ pipe # <<>> /\ pipe' = unread
           /\ IF blockFinished
              THEN pipeState' = "ConsumedFullBufferMsg" /\ pc' = "load"
              ELSE UNCHANGED <<pipeState, pc>>
  <2>1. /\ blockFinished => ~Working /\ unread = <<>>
        /\ unread \in Seq(Messages)
        /\ \A i \in DOMAIN unread :
              /\ unread[i].cum <= srv.cum
              /\ unread[i].rtn \in EndCodes => srv.pos = range
              /\ unread[i].rtn = "OK" => unread[i].cum > 0
              /\ i < Len(unread) \/ Working => unread[i].rtn = "OK" /\ unread[i].cum < srv.max
    BY <1>3, <1>4, FetchedFacts DEF blockFinished
  <2>2. \/ blockFinished /\ pipeState' = "ConsumedFullBufferMsg" /\ pc' = "load"
        \/ UNCHANGED <<pipeState, pc>>
    BY <1>4
  <2>3. TypeOK'
    BY <1>1, <1>4, <2>1, <2>2 DEF IInv, TypeOK
  <2>4. PipeInv' /\ BlockInv' /\ NoStrayRead' /\ ServerInv' /\ OutcomeInv'
    BY <1>1, <1>4, <2>1
       DEF IInv, PipeInv, BlockInv, NoStrayRead, ServerInv, OutcomeInv, Working, Served
  <2>5. ControlInv' /\ IdleInv' /\ ConsumedInv'
    BY <1>1, <1>2, <1>4, <2>1, <2>2
       DEF IInv, ControlInv, IdleInv, ConsumedInv, Working, Served, Quiet
  <2>6. QED BY <2>3, <2>4, <2>5 DEF IInv
<1>5. CASE pc' = "read" /\ UNCHANGED <<pipeState, pipe>>
  <2>1. TypeOK'
    BY <1>1, <1>5 DEF IInv, TypeOK
  <2>2. PipeInv' /\ BlockInv' /\ NoStrayRead' /\ ServerInv' /\ OutcomeInv'
    BY <1>1, <1>5
       DEF IInv, PipeInv, BlockInv, NoStrayRead, ServerInv, OutcomeInv, Working, Served
  <2>3. ControlInv' /\ IdleInv' /\ ConsumedInv'
    BY <1>1, <1>2, <1>5
       DEF IInv, ControlInv, IdleInv, ConsumedInv, Working, Served, Quiet
  <2>4. QED BY <2>1, <2>2, <2>3 DEF IInv
<1>6. QED BY <1>4, <1>5 DEF drainPipe

(* pollNextRow after its read loop: r is the code it ended with, m the     *)
(* count of the last message and rest what is left in the pipe.            *)
LEMMA FinishPollStep ==
  ASSUME IInv, pc = "read",
         NEW r \in ApiCodes, NEW m \in 0 .. MaxCapacity, NEW rest \in Seq(Messages),
         finishPoll(r, m, rest), readerUnchanged,
         UNCHANGED <<bufferVars, readCursor, srv, lastRow, outcome>>,
         r \in EndCodes => srv.pos = range,
         r # "OK" \/ m = 0 \/ ~(m < srv.max) => ~Working /\ rest = <<>>,
         \A i \in DOMAIN rest :
              /\ rest[i].cum <= srv.cum
              /\ rest[i].rtn \in EndCodes => srv.pos = range
              /\ rest[i].rtn = "OK" => rest[i].cum > 0
              /\ i < Len(rest) \/ Working => rest[i].rtn = "OK" /\ rest[i].cum < srv.max
  PROVE  IInv'
<1>1. /\ pc' = "loop" /\ lastMsg' = 0
      /\ UNCHANGED <<usedRows, maxRows, slots, allocSize, rowCapacity, rowsToBlock, readIsAsync,
                     file, client, strays, range, readCursor, srv, lastRow, outcome>>
  BY DEF finishPoll, readerUnchanged, bufferVars, layoutVars, requestVars
<1>2. client = "open" /\ rc = "OK" /\ Served /\ readIsAsync
  BY DEF IInv, ControlInv, Served
<1>3. maxRows = srv.max
  BY <1>2 DEF IInv, BlockInv
<1>4. /\ rc' \in Codes /\ rc' # "ERRNO"
      /\ rc' # "OK" => r # "OK"
      /\ rc' \in EndOfData => r \in EndCodes
  BY DEF finishPoll, checkReturnCode, translateErrorCode, ApiCodes, EndCodes, EndOfData, Codes
<1>5. releaseRowNeeded' \in BOOLEAN /\ msgPipe' \in BOOLEAN
  BY DEF finishPoll, checkReturnCode, closePipe, IInv, TypeOK
<1>6. /\ pipe' \in {rest, <<>>} /\ (rc' = "OK" => pipe' = rest)
      /\ r # "OK" => pipe' = <<>>
  BY DEF finishPoll, closePipe
<1>7. /\ pipeState' \in {"Untouched", "PendingFullBufferMsg", "ConsumedFullBufferMsg"}
      /\ rc' = "OK" /\ pipeState' = "ConsumedFullBufferMsg" => m = 0 \/ ~(m < srv.max)
  BY <1>3 DEF finishPoll, IInv, TypeOK
<1>8. TypeOK'
  <2>1. pipe' \in Seq(Messages) /\ 0 \in 0 .. MaxCapacity
    <3>1. <<>> \in Seq(Messages)
      OBVIOUS
    <3>2. 0 \in 0 .. MaxCapacity
      BY MaxCapacityAssumption
    <3>3. QED BY <1>6, <3>1, <3>2
  <2>2. QED BY <1>1, <1>4, <1>5, <1>7, <2>1 DEF IInv, TypeOK
<1>9. PipeInv'
  BY <1>1, <1>6 DEF PipeInv, Working
<1>10. BlockInv' /\ NoStrayRead'
  BY <1>1, <1>2 DEF IInv, BlockInv, NoStrayRead, Served
<1>11. ServerInv'
  BY <1>1, <1>2, <1>4 DEF IInv, ServerInv, Working
<1>12. ControlInv' /\ IdleInv'
  BY <1>1, <1>2, <1>4 DEF IInv, ControlInv, IdleInv, Served
<1>13. ConsumedInv'
  BY <1>1, <1>6, <1>7 DEF ConsumedInv, Quiet, Working
<1>14. OutcomeInv'
  BY <1>1, <1>2, <1>4 DEF IInv, OutcomeInv
<1>15. QED BY <1>8, <1>9, <1>10, <1>11, <1>12, <1>13, <1>14 DEF IInv

LEMMA PollMessagesStep ==
  ASSUME IInv, PipeReadMayFail = FALSE, pollMessages
  PROVE  IInv'
<1>1. /\ pc = "read" /\ readerUnchanged
      /\ UNCHANGED <<bufferVars, readCursor, srv, lastRow, outcome>>
  BY DEF pollMessages
<1>2. client = "open" /\ rc = "OK" /\ Served /\ readIsAsync
  BY <1>1 DEF IInv, ControlInv, Served
<1>3. usedRows = srv.cum /\ lastMsg \in 0 .. MaxCapacity /\ pipe \in Seq(Messages)
  BY <1>2 DEF IInv, BlockInv, TypeOK
<1>4. CASE pipe # <<>> /\ finishPoll(fetched.rtn, fetched.cum, unread)
  <2>1. fetched.rtn # "OK" \/ fetched.cum = 0 \/ ~(fetched.cum < srv.max)
          => ~Working /\ unread = <<>>
    BY <1>4, FetchedFacts
  <2>2. QED BY <1>1, <1>4, <2>1, FetchedFacts, FinishPollStep
<1>5. CASE /\ pipe # <<>> /\ lastMsg' = fetched.cum /\ pipe' = unread
           /\ UNCHANGED <<rc, releaseRowNeeded, pipeState, msgPipe, pc>>
  <2>1. /\ fetched.cum \in 0 .. MaxCapacity /\ unread \in Seq(Messages)
        /\ \A i \in DOMAIN unread :
              /\ unread[i].cum <= srv.cum
              /\ unread[i].rtn \in EndCodes => srv.pos = range
              /\ unread[i].rtn = "OK" => unread[i].cum > 0
              /\ i < Len(unread) \/ Working => unread[i].rtn = "OK" /\ unread[i].cum < srv.max
    BY <1>5, FetchedFacts
  <2>2. UNCHANGED <<usedRows, maxRows, slots, allocSize, rowCapacity, rowsToBlock, readIsAsync,
                    file, client, strays, range, readCursor, srv, lastRow, outcome, rc,
                    releaseRowNeeded, pipeState, msgPipe, pc>>
    BY <1>1, <1>5 DEF readerUnchanged, bufferVars, layoutVars, requestVars
  <2>3. TypeOK'
    BY <1>5, <2>1, <2>2 DEF IInv, TypeOK
  <2>4. PipeInv'
    BY <1>5, <2>1, <2>2 DEF PipeInv, Working
  <2>5. BlockInv' /\ NoStrayRead' /\ ServerInv' /\ OutcomeInv' /\ ControlInv'
    BY <2>2 DEF IInv, BlockInv, NoStrayRead, ServerInv, OutcomeInv, ControlInv, Working, Served
  <2>6. IdleInv' /\ ConsumedInv'
    BY <1>1, <1>2, <2>2 DEF IInv, IdleInv, ConsumedInv, Served
  <2>7. QED BY <2>3, <2>4, <2>5, <2>6 DEF IInv
<1>6. CASE endOfPipe /\ finishPoll("OK", lastMsg, pipe)
  <2>1. pipe = <<>> /\ ~Working
    BY <1>6 DEF endOfPipe, Working
  <2>2. "OK" \in ApiCodes /\ "OK" \notin EndCodes
    BY DEF ApiCodes, EndCodes
  <2>3. \A i \in DOMAIN pipe : FALSE
    BY <2>1
  <2>4. QED BY <1>1, <1>3, <1>6, <2>1, <2>2, <2>3, FinishPollStep
<1>7. QED BY <1>4, <1>5, <1>6 DEF pollMessages, SignalComes

-----------------------------------------------------------------------------
(* The theorems. *)

LEMMA InitInv == Init => IInv
<1> SUFFICES ASSUME Init PROVE IInv
  OBVIOUS
<1>1. TypeOK
  <2>1. /\ 0 \in 0 .. MaxCapacity /\ 0 \in 0 .. NRows
        /\ NoRead \in Reads /\ EmptySlots \in [Slots -> 0 .. NRows]
    BY NRowsAssumption, MaxCapacityAssumption DEF NoRead, Reads, EndCodes, EmptySlots
  <2>2. /\ readIsAsync \in BOOLEAN /\ file \in BOOLEAN /\ msgPipe \in BOOLEAN
        /\ releaseRowNeeded \in BOOLEAN
    BY DEF Init
  <2>3. /\ usedRows = 0 /\ maxRows = 0 /\ slots = EmptySlots /\ allocSize = 0 /\ rowCapacity = 0
        /\ readCursor = 0 /\ rc = "OK" /\ rowsToBlock = 0 /\ pipeState = "Untouched"
        /\ pc = "idle" /\ lastMsg = 0 /\ client = "closed" /\ srv = NoRead /\ strays = {}
        /\ pipe = <<>> /\ range = 0 /\ lastRow = 0 /\ outcome = "none"
    BY DEF Init
  <2>4. QED BY <2>1, <2>2, <2>3 DEF TypeOK, Codes
<1>2. NoStrayRead /\ ControlInv /\ IdleInv /\ ServerInv /\ BlockInv /\ PipeInv /\ ConsumedInv
      /\ OutcomeInv
  BY DEF Init, NoRead, NoStrayRead, ControlInv, IdleInv, ServerInv, BlockInv, PipeInv,
         ConsumedInv, OutcomeInv, Working, Quiet, Served
<1>3. QED BY <1>1, <1>2 DEF IInv

LEMMA NextInv ==
  ASSUME EndReadFirst = TRUE, PipeReadMayFail = FALSE, IInv, [Next]_vars
  PROVE  IInv'
<1>1. CASE Call
  <2>1. CASE \E rows \in 1 .. MaxCapacity : allocBuf(rows)
    BY <2>1, AllocBufStep
  <2>2. CASE \E rows \in 1 .. MaxCapacity, useAsync \in AsyncModes, n \in 0 .. NRows, c \in EndCodes :
               newReadRequest(rows, useAsync, n, c)
    BY <2>2, NewReadRequestStep
  <2>3. CASE \E rows \in 1 .. MaxCapacity, n \in 0 .. NRows : newReadRequestWithoutPipe(rows, n)
    BY <2>3, NewReadRequestWithoutPipeStep
  <2>4. CASE endRead
    BY <2>4, EndReadStep
  <2>5. CASE releaseAnyLockedRows
    BY <2>5, ReleaseStep
  <2>6. CASE readNextRow
    BY <2>6, ReadNextRowStep
  <2>7. QED BY <1>1, <2>1, <2>2, <2>3, <2>4, <2>5, <2>6 DEF Call
<1>2. CASE Engine
  BY <1>2, LoopConditionStep, ReturnRowStep, PollNextRowStep, DrainPipeStep, LoadNewRowsStep,
     PollMessagesStep DEF Engine
<1>3. CASE Server \/ ServerDies \/ StrayStoresRow
  BY <1>3, ServerStep
<1>4. CASE UNCHANGED vars
  BY <1>4, ReleaseStep
<1>5. QED BY <1>1, <1>2, <1>3, <1>4 DEF Next

THEOREM Invariance ==
  ASSUME EndReadFirst = TRUE, PipeReadMayFail = FALSE
  PROVE  Spec => []IInv
<1>1. IInv /\ [Next]_vars => IInv'
  BY NextInv
<1>2. QED BY InitInv, <1>1, PTL DEF Spec

(* Every variable keeps its type: no row is stored or looked for beyond    *)
(* the buffer, and no block is asked for that the buffer cannot hold.      *)
THEOREM TypeCorrect ==
  ASSUME EndReadFirst = TRUE, PipeReadMayFail = FALSE
  PROVE  Spec => []TypeOK
<1>1. IInv => TypeOK
  BY DEF IInv
<1>2. QED BY <1>1, Invariance, PTL

(* interruptRead ends every read before its buffer is given to another.    *)
THEOREM NoReadGoesAstray ==
  ASSUME EndReadFirst = TRUE, PipeReadMayFail = FALSE
  PROVE  Spec => []NoStrayRead
<1>1. IInv => NoStrayRead
  BY DEF IInv
<1>2. QED BY <1>1, Invariance, PTL

(* loadNewRows and pollNextRow ask for a block only when the server job is *)
(* done with the last one and the pipe says nothing more about it.         *)
THEOREM ReloadIsSafe ==
  ASSUME EndReadFirst = TRUE, PipeReadMayFail = FALSE
  PROVE  Spec => []ReloadFindsServerQuiet
<1>1. IInv => ReloadFindsServerQuiet
  BY DEF IInv, ReloadFindsServerQuiet, ControlInv, ConsumedInv, Served, Quiet, Working, TypeOK, Reads
<1>2. QED BY <1>1, Invariance, PTL

(* The assertions at the end of pollNextRow hold.                          *)
THEOREM CountsAreRight ==
  ASSUME EndReadFirst = TRUE, PipeReadMayFail = FALSE
  PROVE  Spec => []CountsAreBacked
<1>1. IInv => CountsAreBacked
  <2> SUFFICES ASSUME IInv PROVE CountsAreBacked
    OBVIOUS
  <2>1. usedRows \in Nat /\ rowCapacity \in Nat /\ srv.max \in Nat /\ srv.cum \in Nat
    BY MaxCapacityAssumption DEF IInv, TypeOK, Reads
  <2>2. client = "open" => usedRows <= rowCapacity
    BY <2>1 DEF IInv, BlockInv, IdleInv, Served
  <2>3. ASSUME NEW i \in DOMAIN pipe PROVE pipe[i].cum <= usedRows
    <3>1. Served
      BY DEF IInv, IdleInv, Served, Quiet
    <3>2. QED BY <3>1 DEF IInv, BlockInv, PipeInv
  <2>4. QED BY <2>2, <2>3 DEF CountsAreBacked
<1>2. QED BY <1>1, Invariance, PTL

(* The read buffer implements the cursor of RowCursor: every step hands    *)
(* over the next row of the range, reports the end of the range or an      *)
(* error, starts a new request, or changes nothing the caller sees.        *)
THEOREM ImplementsCursor ==
  ASSUME EndReadFirst = TRUE, PipeReadMayFail = FALSE
  PROVE  Spec => CursorSpec
<1>1. Init => Cursor!Init
  BY DEF Init, Cursor!Init
<1>2. ASSUME IInv, [Next]_vars PROVE [Cursor!Next]_(Cursor!vars)
  <2>1. CASE UNCHANGED historyVars
    BY <2>1 DEF historyVars, Cursor!vars
  <2>2. ASSUME NEW n \in 0 .. NRows, range' = n, lastRow' = 0, outcome' = "none"
        PROVE  Cursor!Next
    BY <2>2 DEF Cursor!Next, Cursor!Open
  <2>3. CASE returnRow
    <3>1. range' = range /\ pc = "return" /\ client = "open"
      BY <1>2, <2>3 DEF returnRow, readerUnchanged, IInv, ControlInv
    <3>2. /\ usedRows \in Nat /\ readCursor \in Nat /\ rowCapacity \in Nat /\ srv.cum \in Nat
          /\ srv.pos \in Nat /\ range \in Nat /\ lastRow \in Nat /\ srv.max \in Nat
      BY <1>2, MaxCapacityAssumption, NRowsAssumption DEF IInv, TypeOK, Reads
    <3>3. CASE readCursor < usedRows
      <4>1. Served
        BY <1>2, <3>1, <3>3 DEF IInv, IdleInv, Served
      <4>2. /\ usedRows = srv.cum /\ srv.cum <= srv.max /\ srv.pos <= range /\ srv.max <= rowCapacity
            /\ lastRow + srv.cum = srv.pos + readCursor
            /\ \A s \in Slots : s < srv.cum => slots[s] + srv.cum = srv.pos + s + 1
        BY <1>2, <4>1 DEF IInv, BlockInv
      <4>3. readCursor \in Slots /\ readCursor < rowCapacity
        <5>1. rowCapacity <= MaxCapacity
          BY <1>2, MaxCapacityAssumption DEF IInv, TypeOK
        <5>2. QED BY <3>2, <3>3, <4>2, <5>1, MaxCapacityAssumption DEF Slots
      <4>4. slots[readCursor] \in Nat
        BY <1>2, <4>3, NRowsAssumption DEF IInv, TypeOK
      <4>5. lastRow' = slots[readCursor] /\ outcome' = "row"
        BY <2>3, <3>3, <4>3 DEF returnRow, rowAvailable
      <4>6. lastRow' = lastRow + 1 /\ lastRow < range
        BY <3>2, <3>3, <4>2, <4>3, <4>4, <4>5
      <4>7. outcome \in {"none", "row"}
        <5>1. readCursor # usedRows
          BY <3>2, <3>3
        <5>2. outcome \in {"none", "row", "end", "error"}
          BY <1>2 DEF IInv, TypeOK
        <5>3. QED BY <1>2, <3>1, <5>1, <5>2 DEF IInv, OutcomeInv
      <4>8. QED BY <3>1, <4>5, <4>6, <4>7 DEF Cursor!Next, Cursor!FetchRow
    <3>4. CASE ~(readCursor < usedRows)
      <4>1. rc # "OK" /\ outcome' = (IF rc \in EndOfData THEN "end" ELSE "error") /\ lastRow' = lastRow
        BY <1>2, <2>3, <3>1, <3>4 DEF returnRow, rowAvailable, IInv, ControlInv
      <4>2. CASE rc \in EndOfData
        <5>1. Served /\ srv.pos = range
          BY <1>2, <3>1, <4>2 DEF IInv, OutcomeInv, Served, EndOfData
        <5>2. usedRows = srv.cum /\ readCursor <= usedRows /\ lastRow + srv.cum = srv.pos + readCursor
          BY <1>2, <5>1 DEF IInv, BlockInv
        <5>3. lastRow = range
          BY <3>2, <3>4, <5>1, <5>2
        <5>4. outcome # "error"
          BY <1>2, <3>1, <4>2 DEF IInv, OutcomeInv
        <5>5. QED BY <3>1, <4>1, <4>2, <5>3, <5>4 DEF Cursor!Next, Cursor!FetchEnd
      <4>3. CASE rc \notin EndOfData
        BY <3>1, <4>1, <4>3 DEF Cursor!Next, Cursor!FetchError
      <4>4. QED BY <4>2, <4>3
    <3>5. QED BY <3>3, <3>4
  <2>4. CASE Call
    BY <2>1, <2>2, <2>4
       DEF Call, allocBuf, newReadRequest, newReadRequestWithoutPipe, endRead,
           releaseAnyLockedRows, readNextRow, readerUnchanged, historyVars
  <2>5. CASE Engine
    BY <2>1, <2>3, <2>5
       DEF Engine, loopCondition, pollNextRow, drainPipe, loadNewRows, pollMessages,
           readerUnchanged, historyVars
  <2>6. CASE Server \/ ServerDies \/ StrayStoresRow
    BY <2>1, <2>6
       DEF Server, ServerStoresRow, ServerPosts, ServerEnds, ServerDies, StrayStoresRow,
           engineUnchanged
  <2>7. CASE UNCHANGED vars
    BY <2>1, <2>7 DEF vars
  <2>8. QED BY <1>2, <2>4, <2>5, <2>6, <2>7 DEF Next
<1>3. QED
  BY <1>1, <1>2, Invariance, PTL DEF Spec, CursorSpec, Cursor!Spec
=============================================================================
