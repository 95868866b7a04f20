------------------------------ MODULE AsyncRead ------------------------------
(***************************************************************************)
(* IOAsyncReadBuffer (db2i_ioBuffers.h, db2i_ioBuffers.cc): the row buffer *)
(* through which the handler reads a table or an index.                    *)
(*                                                                         *)
(* Two processes share the buffer.  The engine's thread runs the methods   *)
(* of IOAsyncReadBuffer; the DB2 server job that QMYSE starts for an       *)
(* asynchronous read stores rows in the buffer, advances the used row      *)
(* count in the buffer's header, and posts one message per row on a pipe.  *)
(* The engine consults the pipe only when its cursor has caught up with    *)
(* the used row count.                                                     *)
(*                                                                         *)
(* readNextRow reads the used row count several times while the server     *)
(* job may be changing it, so that method is split at every such read and  *)
(* at every read(2) on the pipe.  The other methods are single actions:    *)
(* what they read of the shared state cannot change in a way they notice.  *)
(*                                                                         *)
(* The server job is external: it is modelled from how the engine uses it. *)
(*                                                                         *)
(* A definition named Name_Variant is Name with a plausible mistake in it; *)
(* no specification uses it, and each property fails with one of them.     *)
(***************************************************************************)
EXTENDS Naturals, Sequences

CONSTANTS
  NRows,            (* bound: rows in the range of a read request          *)
  MaxCapacity,      (* bound: rows the buffer can be asked to hold         *)
  BatchSize,        (* pipe messages fetched by one read(2): 32            *)
  PipeCapacity,     (* messages the pipe holds before a writer blocks      *)
  AsyncModes,       (* values the session variable async_enabled can take  *)
  EndReadFirst,     (* do callers end a read before they prepare the next? *)
  PipeReadMayFail,  (* can read(2) on the pipe fail (a signal, say)?       *)
  ServerMayDie      (* can the server job end, closing its pipe end?       *)

ASSUME NRowsAssumption == NRows \in Nat
ASSUME MaxCapacityAssumption == MaxCapacity \in Nat \ {0}
ASSUME BatchSizeAssumption == BatchSize \in Nat \ {0}
ASSUME PipeCapacityAssumption == PipeCapacity \in Nat \ {0}
ASSUME AsyncModesAssumption == AsyncModes \subseteq BOOLEAN
ASSUME FaultsAssumption == /\ EndReadFirst \in BOOLEAN
                           /\ PipeReadMayFail \in BOOLEAN
                           /\ ServerMayDie \in BOOLEAN

VARIABLES
  usedRows,         (* buffer header, advanced by the server job           *)
  maxRows,          (* buffer header, the rows asked for                   *)
  slots,            (* the rows stored: slot -> number of the row in range *)
  allocSize,        (* storage allocated, in rows                          *)
  rowCapacity,      (* rows the buffer is laid out for                     *)
  readCursor,       (* next slot to hand to the caller                     *)
  rc,               (* return code of the last operation                   *)
  rowsToBlock,      (* rows to ask for in each block after the first       *)
  readIsAsync,      (* is the current read asynchronous?                   *)
  file,             (* is there a file instance to read from?              *)
  msgPipe,          (* is the read end of the pipe open (not QMY_REUSE)?   *)
  pipeState,        (* what is known of the full-block message             *)
  releaseRowNeeded, (* must the handler release a row lock?                *)
  pc,               (* where readNextRow is; "idle" outside of it          *)
  lastMsg,          (* pollNextRow's lastMsg: its count, 0 for NULL        *)
  client,           (* what the handler has called last                    *)
  srv,              (* the server job and the read it serves               *)
  strays,           (* reads still storing rows that no one can interrupt  *)
  pipe,             (* messages in flight                                  *)
  range,            (* rows in the range of the current request            *)
  lastRow,          (* history: number of the last row handed over         *)
  outcome           (* history: what the last readNextRow answered         *)

bufferVars == <<usedRows, maxRows, slots>>
layoutVars == <<allocSize, rowCapacity>>
requestVars == <<rowsToBlock, readIsAsync, file>>
serverVars == <<srv, strays>>
historyVars == <<range, lastRow, outcome>>
vars == <<bufferVars, layoutVars, requestVars, serverVars, historyVars,
          readCursor, rc, msgPipe, pipeState, releaseRowNeeded, pc, lastMsg,
          client, pipe>>

-----------------------------------------------------------------------------
(* Types and null values.                                                  *)

EndCodes == {"QMY_END_OF_FILE", "QMY_KEY_NOT_FOUND"}
ApiCodes == EndCodes \cup {"OK", "QMY_END_OF_BLOCK", "QMY_OTHER"}
Codes == {"OK", "HA_END_OF_FILE", "HA_KEY_NOT_FOUND", "QMY_OTHER", "ERRNO"}
EndOfData == {"HA_END_OF_FILE", "HA_KEY_NOT_FOUND"}

Slots == 0 .. MaxCapacity - 1
EmptySlots == [s \in Slots |-> 0]

Reads == [phase : {"idle", "fetch", "post", "dead"}, (* what the job does  *)
          pos : 0 .. NRows,         (* rows of the range read so far       *)
          cum : 0 .. MaxCapacity,   (* rows stored in this block           *)
          max : 0 .. MaxCapacity,   (* rows asked for in this block        *)
          code : EndCodes]          (* how the end of the range is told    *)

NoRead == [phase |-> "idle", pos |-> 0, cum |-> 0, max |-> 0,
           code |-> "QMY_END_OF_FILE"]

Messages == [rtn : ApiCodes, cum : 0 .. MaxCapacity]

(* Can the read s store a row even when no one reads its pipe any more?    *)
CanStore(s) == s.phase = "fetch"

Minimum(a, b) == IF a < b THEN a ELSE b

(* db2i_ileBridge::translateErrorCode, as far as reads are concerned. *)
translateErrorCode(c) ==
  CASE c = "QMY_END_OF_FILE" -> "HA_END_OF_FILE"
    [] c = "QMY_KEY_NOT_FOUND" -> "HA_KEY_NOT_FOUND"
    [] OTHER -> c

-----------------------------------------------------------------------------
Init ==
  /\ usedRows = 0 /\ maxRows = 0 /\ slots = EmptySlots
  /\ allocSize = 0 /\ rowCapacity = 0
  /\ readCursor = 0 /\ rc = "OK"
  /\ rowsToBlock = 0 /\ readIsAsync = FALSE /\ file = FALSE
  /\ msgPipe = FALSE /\ pipeState = "Untouched"
  /\ releaseRowNeeded = FALSE
  /\ pc = "idle" /\ lastMsg = 0 /\ client = "closed"
  /\ srv = NoRead /\ strays = {} /\ pipe = <<>>
  /\ range = 0 /\ lastRow = 0 /\ outcome = "none"

-----------------------------------------------------------------------------
(* The parts the methods are made of.                                      *)

(* interruptRead calls readInterrupt only in this case. *)
Interrupts_RowsLeft == file /\ readIsAsync /\ rc = "OK" /\ readCursor < usedRows
Interrupts == file /\ readIsAsync /\ rc = "OK" /\ usedRows < rowCapacity

Halted == IF srv.phase = "dead" THEN srv ELSE [srv EXCEPT !.phase = "idle"]

(* A read that is not interrupted now never will be. *)
leaveRead ==
  strays' = IF ~Interrupts /\ CanStore(srv) THEN strays \cup {srv} ELSE strays

(* closePipe: what is in the pipe is gone with its reader. *)
closePipe == msgPipe' = FALSE /\ pipe' = <<>>

(* interruptRead: closePipe, then readInterrupt. *)
interruptRead == closePipe /\ leaveRead /\ srv' = Halted

(* rewind *)
rewind == readCursor' = 0 /\ rc' = "OK" /\ usedRows' = 0

(* What a synchronous QMY_READ_ROWS answers: how many rows it stored and a *)
(* code.  bridge->read turns END_OF_BLOCK into success, so only the end of *)
(* the data and other errors show up.                                      *)
SyncAnswers(m, p, n, c) ==
  LET got == Minimum(m, n - p)
  IN  (IF got > 0 THEN {<<got, "OK">>} ELSE {})
      \cup (IF p + got = n THEN {<<got, translateErrorCode(c)>>} ELSE {})
      \cup {<<0, "QMY_OTHER">>}

(* db2i_ileBridge::read of up to m rows after row p of a range of n rows,  *)
(* just after the buffer was rewound; r is the code it returns, which doIt *)
(* has translated already.                                                 *)
BridgeRead(m, isAsync, p, n, c, r) ==
  \/ /\ r = "QMY_OTHER"                              (* the request fails  *)
     /\ srv' = [phase |-> Halted.phase, pos |-> p, cum |-> 0, max |-> m, code |-> c]
     /\ usedRows' = 0
     /\ UNCHANGED slots
  \/ /\ isAsync /\ srv.phase # "dead"                (* the job starts     *)
     /\ r = "OK"
     /\ srv' = [phase |-> "fetch", pos |-> p, cum |-> 0, max |-> m, code |-> c]
     /\ usedRows' = 0
     /\ UNCHANGED slots
  \/ /\ ~isAsync /\ srv.phase # "dead"               (* rows are returned  *)
     /\ \E a \in SyncAnswers(m, p, n, c) :
          /\ r = a[2]
          /\ usedRows' = a[1]
          /\ srv' = [phase |-> "idle", pos |-> p + a[1], cum |-> a[1], max |-> m, code |-> c]
          /\ slots' = [s \in Slots |-> IF s < a[1] THEN p + s + 1 ELSE slots[s]]

(* How loadNewRows and pollNextRow read a return code: the end of a block  *)
(* is no error, and at the end of the data DB2 keeps no row locked.        *)
checkReturnCode(r) ==
  /\ rc' = IF r = "QMY_END_OF_BLOCK" THEN "OK" ELSE
           IF r \in EndCodes THEN translateErrorCode(r) ELSE r
  /\ releaseRowNeeded' = (r \notin EndCodes)

-----------------------------------------------------------------------------
(* The methods called between reads, each in one action.                   *)

(* allocBuf, from prepReadBuffer: more storage if it is too small (freeBuf *)
(* runs prepForFree, which interrupts the read), then initAfterAllocate.   *)
allocBuf(rows) ==
  /\ pc = "idle"
  /\ EndReadFirst => client # "open"
  /\ client' = "prepared"
  /\ LET grows == rows > allocSize
         freesOld == grows /\ allocSize > 0
     IN  /\ allocSize' = IF grows THEN rows ELSE allocSize
         /\ slots' = IF grows THEN EmptySlots ELSE slots
         /\ IF freesOld
            THEN interruptRead
            ELSE UNCHANGED <<serverVars, msgPipe, pipe>>
  /\ rowCapacity' = rows
  /\ rewind
  /\ UNCHANGED <<maxRows, requestVars, pipeState, releaseRowNeeded, pc,
                 lastMsg, historyVars>>

(* doInitialRead never asks for more rows than the buffer can hold. *)
blockSizes_Unchecked == 1 .. MaxCapacity
blockSizes == 1 .. rowCapacity

(* newReadRequest for up to rows rows at a time, over a range of n rows.   *)
newReadRequest(rows, useAsync, n, c) ==
  LET isAsync == useAsync /\ rows > 1
  IN  /\ pc = "idle" /\ client = "prepared"
      /\ rows \in blockSizes
      /\ client' = "open"
      /\ pipe' = <<>>
      /\ range' = n /\ lastRow' = 0 /\ outcome' = "none"
      /\ leaveRead
      /\ file' = TRUE
      /\ readIsAsync' = isAsync
      /\ rowsToBlock' = rows
      /\ readCursor' = 0
      /\ maxRows' = 1
      /\ msgPipe' = isAsync
      /\ pipeState' = IF isAsync THEN "Untouched" ELSE pipeState
      /\ \E r \in Codes :
           /\ BridgeRead(1, isAsync, 0, n, c, r)
           /\ rc' = IF r = "QMY_KEY_NOT_FOUND" /\ usedRows' > 0 THEN "HA_END_OF_FILE"
                    ELSE IF r \in EndCodes THEN translateErrorCode(r) ELSE r
           /\ releaseRowNeeded' = (r \notin EndCodes)
      /\ UNCHANGED <<layoutVars, pc, lastMsg>>

(* newReadRequest when pipe() or fstatx() fails: it returns at once.       *)
newReadRequestWithoutPipe(rows, n) ==
  /\ pc = "idle" /\ client = "prepared"
  /\ TRUE \in AsyncModes /\ rows \in blockSizes \ {1}
  /\ client' = "open"
  /\ interruptRead
  /\ rc' = "ERRNO"
  /\ range' = n /\ lastRow' = 0 /\ outcome' = "none"
  /\ UNCHANGED <<bufferVars, layoutVars, readCursor, requestVars, pipeState,
                 releaseRowNeeded, pc, lastMsg>>

(* endRead, from index_end and rnd_end.                                    *)
endRead ==
  /\ pc = "idle"
  /\ client' = "closed"
  /\ interruptRead
  /\ file' = FALSE
  /\ UNCHANGED <<bufferVars, layoutVars, readCursor, rc, rowsToBlock, readIsAsync,
                 pipeState, releaseRowNeeded, pc, lastMsg, historyVars>>

(* ha_ibmdb2i::releaseAnyLockedRows                                        *)
releaseAnyLockedRows ==
  /\ pc = "idle"
  /\ releaseRowNeeded
  /\ releaseRowNeeded' = FALSE
  /\ UNCHANGED <<bufferVars, layoutVars, requestVars, serverVars, historyVars,
                 readCursor, rc, msgPipe, pipeState, pc, lastMsg, client, pipe>>

-----------------------------------------------------------------------------
(* readNextRow, one action per read of the shared state.                   *)

readerUnchanged == UNCHANGED <<layoutVars, requestVars, client, strays, range>>

readNextRow ==
  /\ pc = "idle" /\ client = "open"
  /\ pc' = "loop"
  /\ readerUnchanged
  /\ UNCHANGED <<bufferVars, readCursor, rc, msgPipe, pipeState,
                 releaseRowNeeded, lastMsg, srv, pipe, lastRow, outcome>>

(* The loop's condition: is there no row left, and no error yet?           *)
loopCondition ==
  /\ pc = "loop"
  /\ pc' = IF readCursor < usedRows \/ rc # "OK" THEN "return"
           ELSE IF readIsAsync THEN "poll" ELSE "load"
  /\ readerUnchanged
  /\ UNCHANGED <<bufferVars, readCursor, rc, msgPipe, pipeState,
                 releaseRowNeeded, lastMsg, srv, pipe, lastRow, outcome>>

(* A row of the buffer, or NULL. *)
rowAvailable_NoError == readCursor < usedRows /\ rc = "OK"
rowAvailable == readCursor < usedRows

returnRow ==
  /\ pc = "return"
  /\ pc' = "idle"
  /\ IF rowAvailable
     THEN /\ readCursor' = readCursor + 1
          /\ IF readCursor < rowCapacity         (* getRowN *)
             THEN lastRow' = slots[readCursor] /\ outcome' = "row"
             ELSE outcome' = "error" /\ UNCHANGED lastRow
     ELSE /\ outcome' = IF rc \in EndOfData THEN "end" ELSE "error"
          /\ UNCHANGED <<readCursor, lastRow>>
  /\ readerUnchanged
  /\ UNCHANGED <<bufferVars, rc, msgPipe, pipeState, releaseRowNeeded, lastMsg,
                 srv, pipe>>

(* pollNextRow up to its first read(2): is the block full, and do we know  *)
(* that the server job has said so?                                        *)
notReadToEnd_OrAtEnd == readCursor <= usedRows
notReadToEnd == readCursor < usedRows

pollNextRow ==
  /\ pc = "poll"
  /\ pc' = IF usedRows # maxRows THEN "read"
           ELSE IF notReadToEnd THEN "loop"
           ELSE CASE pipeState = "PendingFullBufferMsg" -> "drain"
                  [] pipeState = "ConsumedFullBufferMsg" -> "load"
                  [] OTHER -> "read"
  /\ readerUnchanged
  /\ UNCHANGED <<bufferVars, readCursor, rc, msgPipe, pipeState,
                 releaseRowNeeded, lastMsg, srv, pipe, lastRow, outcome>>

(* One read(2) of the pipe: the messages there are, BatchSize at most; the *)
(* code looks at the last one only.                                        *)
batch == Minimum(BatchSize, Len(pipe))
fetched == pipe[batch]
unread == SubSeq(pipe, batch + 1, Len(pipe))
endOfPipe == pipe = <<>> /\ srv.phase = "dead"
SignalComes == PipeReadMayFail /\ strays = {}    (* bound: one read strays *)

(* drainPipe; whatever ends its loop, pollNextRow goes on.                 *)
blockFinished_AnyMessage == TRUE
blockFinished == fetched.cum = maxRows \/ fetched.rtn # "OK"

drainPipe ==
  /\ pc = "drain"
  /\ \/ /\ pipe # <<>> /\ pipe' = unread
        /\ IF blockFinished
           THEN pipeState' = "ConsumedFullBufferMsg" /\ pc' = "load"
           ELSE UNCHANGED <<pipeState, pc>>
     \/ /\ endOfPipe \/ SignalComes
        /\ pc' = "read"
        /\ UNCHANGED <<pipeState, pipe>>
  /\ readerUnchanged
  /\ UNCHANGED <<bufferVars, readCursor, rc, msgPipe, releaseRowNeeded, lastMsg,
                 srv, lastRow, outcome>>

(* loadNewRows; from pollNextRow, a success goes on to read the pipe.      *)
loadNewRows ==
  /\ pc = "load"
  /\ readCursor' = 0
  /\ maxRows' = rowsToBlock
  /\ \E r \in Codes :
       /\ BridgeRead(rowsToBlock, readIsAsync, srv.pos, range, srv.code, r)
       /\ checkReturnCode(r)
  /\ IF rc' = "OK" THEN UNCHANGED <<msgPipe, pipe>> ELSE closePipe
  /\ pc' = IF readIsAsync /\ rc' = "OK" THEN "read" ELSE "loop"
  /\ readerUnchanged
  /\ UNCHANGED <<pipeState, lastMsg, lastRow, outcome>>

(* What pollNextRow does after its read loop, which ended with code r and  *)
(* m, the count of the last message (0 if there was none).                 *)
finishPoll(r, m, rest) ==
  /\ checkReturnCode(r)
  /\ pipeState' = IF m = 0 \/ rc' # "OK" THEN pipeState
                  ELSE IF m < maxRows THEN "PendingFullBufferMsg"
                  ELSE "ConsumedFullBufferMsg"
  /\ IF rc' = "OK" THEN pipe' = rest /\ UNCHANGED msgPipe ELSE closePipe
  /\ lastMsg' = 0
  /\ pc' = "loop"

(* The read loop of pollNextRow.  The used row count is read just after    *)
(* the messages; a server step in between could as well come before.       *)
pollMessages ==
  /\ pc = "read"
  /\ \/ /\ pipe # <<>>
        /\ IF fetched.rtn # "OK" \/ fetched.cum = usedRows
           THEN finishPoll(fetched.rtn, fetched.cum, unread)
           ELSE /\ lastMsg' = fetched.cum /\ pipe' = unread
                /\ UNCHANGED <<rc, releaseRowNeeded, pipeState, msgPipe, pc>>
     \/ endOfPipe /\ finishPoll("OK", lastMsg, pipe)
     \/ SignalComes /\ finishPoll("ERRNO", lastMsg, pipe)
  /\ readerUnchanged
  /\ UNCHANGED <<bufferVars, readCursor, srv, lastRow, outcome>>

-----------------------------------------------------------------------------
(* The server job (external).  It stores a row and advances the used row   *)
(* count, then posts a message with that count; the message that fills the *)
(* block ends the read, and so do the end of the range, an error, and a    *)
(* pipe that no one reads.                                                 *)

engineUnchanged ==
  UNCHANGED <<maxRows, layoutVars, requestVars, historyVars, readCursor, rc,
              msgPipe, pipeState, releaseRowNeeded, pc, lastMsg, client>>

ServerStoresRow ==
  /\ srv.phase = "fetch" /\ srv.pos < range
  /\ slots' = [slots EXCEPT ![srv.cum] = srv.pos + 1]
  /\ usedRows' = srv.cum + 1
  /\ srv' = [srv EXCEPT !.phase = "post", !.cum = @ + 1, !.pos = @ + 1]
  /\ engineUnchanged /\ UNCHANGED <<strays, pipe>>

ServerPosts ==
  /\ srv.phase = "post"
  /\ IF msgPipe
     THEN /\ Len(pipe) < PipeCapacity
          /\ \E r \in IF srv.cum = srv.max THEN {"OK", "QMY_END_OF_BLOCK"} ELSE {"OK"} :
               pipe' = Append(pipe, [rtn |-> r, cum |-> srv.cum])
          /\ srv' = [srv EXCEPT !.phase = IF srv.cum = srv.max THEN "idle" ELSE "fetch"]
     ELSE srv' = Halted /\ UNCHANGED pipe
  /\ engineUnchanged /\ UNCHANGED <<usedRows, slots, strays>>

ServerEnds ==
  /\ srv.phase = "fetch"
  /\ IF msgPipe
     THEN /\ Len(pipe) < PipeCapacity
          /\ \E r \in IF srv.pos = range THEN {srv.code, "QMY_OTHER"} ELSE {"QMY_OTHER"} :
               pipe' = Append(pipe, [rtn |-> r, cum |-> srv.cum])
     ELSE UNCHANGED pipe
  /\ srv' = Halted
  /\ engineUnchanged /\ UNCHANGED <<usedRows, slots, strays>>

ServerDies ==
  /\ ServerMayDie /\ srv.phase # "dead"
  /\ srv' = [srv EXCEPT !.phase = "dead"]
  /\ engineUnchanged /\ UNCHANGED <<usedRows, slots, strays, pipe>>

(* A read out of reach stores the row it was fetching, then finds its pipe *)
(* closed.                                                                 *)
StrayStoresRow ==
  \E s \in strays :
    /\ s.pos < NRows
    /\ slots' = [slots EXCEPT ![s.cum] = s.pos + 1]
    /\ usedRows' = s.cum + 1
    /\ strays' = strays \ {s}
    /\ engineUnchanged /\ UNCHANGED <<srv, pipe>>

-----------------------------------------------------------------------------
Call ==
  \/ \E rows \in 1 .. MaxCapacity : allocBuf(rows)
  \/ \E rows \in 1 .. MaxCapacity, useAsync \in AsyncModes, n \in 0 .. NRows, c \in EndCodes :
       newReadRequest(rows, useAsync, n, c)
  \/ \E rows \in 1 .. MaxCapacity, n \in 0 .. NRows : newReadRequestWithoutPipe(rows, n)
  \/ endRead
  \/ releaseAnyLockedRows
  \/ readNextRow

Engine == loopCondition \/ returnRow \/ pollNextRow \/ drainPipe \/ loadNewRows \/ pollMessages

Server == ServerStoresRow \/ ServerPosts \/ ServerEnds

Next == Call \/ Engine \/ Server \/ ServerDies \/ StrayStoresRow

Spec == Init /\ [][Next]_vars

(* The engine's thread keeps running inside readNextRow, and the server    *)
(* job keeps serving the read it was given; the handler need not call.  No *)
(* signal has to come to the aid of a thread that waits on the pipe.       *)
Signalled == \/ pc = "drain" /\ pipe = <<>> /\ ~endOfPipe
             \/ pc = "read" /\ rc' = "ERRNO"
FairSpec == Spec /\ WF_vars(Engine /\ ~Signalled) /\ WF_vars(Server)

-----------------------------------------------------------------------------
(* Properties.                                                             *)

TypeOK ==
  /\ usedRows \in 0 .. MaxCapacity /\ maxRows \in 0 .. MaxCapacity
  /\ slots \in [Slots -> 0 .. NRows]
  /\ allocSize \in 0 .. MaxCapacity /\ rowCapacity \in 0 .. MaxCapacity
  /\ readCursor \in 0 .. MaxCapacity /\ rc \in Codes
  /\ rowsToBlock \in 0 .. MaxCapacity /\ readIsAsync \in BOOLEAN /\ file \in BOOLEAN
  /\ msgPipe \in BOOLEAN
  /\ pipeState \in {"Untouched", "PendingFullBufferMsg", "ConsumedFullBufferMsg"}
  /\ releaseRowNeeded \in BOOLEAN
  /\ pc \in {"idle", "loop", "poll", "drain", "load", "read", "return"}
  /\ lastMsg \in 0 .. MaxCapacity
  /\ client \in {"closed", "prepared", "open"}
  /\ srv \in Reads /\ strays \subseteq Reads
  /\ pipe \in Seq(Messages)
  /\ range \in 0 .. NRows /\ lastRow \in 0 .. NRows
  /\ outcome \in {"none", "row", "end", "error"}

(* When the engine asks for the next block it rewinds the buffer, so the   *)
(* server job must be done with the last one, and no message about the     *)
(* last block may be left to be taken for one about the next.              *)
ReloadFindsServerQuiet ==
  pc = "load" /\ readIsAsync => srv.phase \in {"idle", "dead"} /\ pipe = <<>>

(* No read goes on storing rows in a buffer that has been handed to        *)
(* another read, laid out anew or freed: interruptRead ends it first.      *)
NoStrayRead == strays = {}

(* The assertions at the end of pollNextRow: no message counts rows that   *)
(* are not in the buffer, and the rows in it fit.                          *)
CountsAreBacked ==
  /\ \A i \in DOMAIN pipe : pipe[i].cum <= usedRows
  /\ client = "open" => usedRows <= rowCapacity

(* The rows come back one by one, in order, up to the end of the range     *)
(* whatever the server job does meanwhile: the buffer implements a cursor. *)
Cursor == INSTANCE RowCursor WITH returned <- lastRow
CursorSpec == Cursor!Spec

(* A call of readNextRow returns: the engine and the server job never wait *)
(* for each other over a full or an empty pipe.  It may not once a read    *)
(* that went astray has moved the used row count under it.                 *)
CountDisturbed == usedRows # srv.cum
ReadReturns == pc # "idle" ~> pc = "idle" \/ CountDisturbed
=============================================================================
