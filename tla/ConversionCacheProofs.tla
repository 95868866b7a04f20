----------------------- MODULE ConversionCacheProofs -----------------------
(***************************************************************************)
(* What TLAPS proves about ConversionCache: for any number of connections, *)
(* character sets and code pages and any sizes of the arrays, if no two    *)
(* threads open at the same time and DB2 answers every question for a      *)
(* scheme, every descriptor handed out converts what was asked for, for    *)
(* ever, and nothing supported is refused while there is a record.         *)
(***************************************************************************)
EXTENDS ConversionCache, TLAPS

Building == Opening \ {"alloc", "take"}

(* What a thread knows at each place.                                      *)
SingleOpener == \A t, u \in Threads :
  call[t].at \in Opening /\ call[u].at \in Opening => t = u

Good(d, k) == Converts(d, k) /\ conv[d] # Unset

ThreadOk(t) ==
  LET c == call[t] IN
  /\ c.at # "idle" => EncodingMap[c.key.myCharset] # NoPage
  /\ c.at = "claim" => ~taken[c.slot]
  /\ c.at \in Opening \ {"claim"} => taken[c.slot]
  /\ c.at \in Building => conv[c.slot] = Unset
  /\ c.at = "fillFrom" => ccsidList[c.entry] = FromPage(c.key)
  /\ c.at = "fillTo" => ccsidList[c.entry] = ToPage(c.key)
  /\ c.at \in {"to", "putTo", "fillTo", "build"} => c.from = Scheme[FromPage(c.key)]
  /\ c.at = "build" => c.to = Scheme[ToPage(c.key)]
  /\ c.at \in {"alloc", "take", "lock", "insert"} => Good(c.slot, c.key)
  /\ c.at = "take" => c.block = freeBlock
  /\ c.at \in {"lock", "insert"} => /\ c.block < freeBlock
                                    /\ mapping[c.block] = [hashKey |-> c.key, iconvDesc |-> c.slot]

(* The shared state.                                                       *)
ListSound == \A i \in Entries :
  \/ ccsidList[i] = NoPage
  \/ esList[i] = Scheme[ccsidList[i]]
  \/ \E t \in Threads : call[t].at \in {"fillFrom", "fillTo"} /\ call[t].entry = i

FreeUnset == \A i \in Slots : ~taken[i] => conv[i] = Unset

HashSound ==
  /\ \A b, c \in iconvMapHash : mapping[b].hashKey = mapping[c].hashKey => b = c
  /\ \A b \in iconvMapHash : b < freeBlock /\ Good(mapping[b].iconvDesc, mapping[b].hashKey)

RefusedSound == \A k \in refused : Supported(k) => \A i \in Slots : taken[i]

GivenSound == \A g \in given : Good(g[2], g[1])

IInv ==
  /\ TypeOK
  /\ SingleOpener
  /\ \A t \in Threads : ThreadOk(t)
  /\ ListSound
  /\ FreeUnset
  /\ HashSound
  /\ GivenSound
  /\ RefusedSound

CallRecord == [at : Labels, key : Keys, slot : Slots, entry : Entries,
               from : Schemes, to : Schemes, block : Blocks]

LEMMA PagesOfKeys ==
  ASSUME NEW k \in Keys
  PROVE  /\ FromPage(k) \in Pages /\ Scheme[FromPage(k)] \in Schemes
         /\ ToPage(k) \in Pages /\ Scheme[ToPage(k)] \in Schemes
BY PagesAssumption DEF Keys, FromPage, ToPage, Pages

LEMMA IdleRecord == SomeKey \in Keys /\ Idle \in CallRecord
<1>1. PICK cs \in Charsets, p \in Ccsids : TRUE BY PagesAssumption
<1>2. [direction |-> "toDB2", myCharset |-> cs, db2CCSID |-> p] \in Keys BY <1>1 DEF Keys
<1> HIDE DEF Keys
<1>4. SomeKey \in Keys BY <1>2 DEF SomeKey
<1>3. 1 \in Slots /\ 1 \in Entries /\ 1 \in Blocks
  BY SizesAssumption DEF Slots, Entries, Blocks
<1> QED BY <1>4, <1>3 DEF Idle, CallRecord, Labels, Schemes

LEMMA InvInit == Init => IInv
<1> SUFFICES ASSUME Init PROVE IInv OBVIOUS
<1> USE DEF Init
<1>1. TypeOK BY IdleRecord, SizesAssumption DEF TypeOK, CallRecord, Unset, Schemes, Slots, Blocks
<1>2. \A t \in Threads : call[t] = Idle OBVIOUS
<1>3. SingleOpener BY <1>2 DEF SingleOpener, Idle, Opening
<1>4. \A t \in Threads : ThreadOk(t) BY <1>2 DEF ThreadOk, Idle, Opening, Building
<1>5. ListSound BY DEF ListSound
<1>6. FreeUnset /\ HashSound /\ GivenSound /\ RefusedSound
  BY DEF FreeUnset, HashSound, GivenSound, RefusedSound
<1> QED BY <1>1, <1>3, <1>4, <1>5, <1>6 DEF IInv

(* A call that stays out of the opening and changes no shared state.       *)
LEMMA HitStep ==
  ASSUME IInv, NEW t \in Threads, NEW k \in Keys, Hit(t, k)
  PROVE  IInv'
<1> USE DEF IInv
<1>1. UNCHANGED <<call, taken, conv, lists, hash, refused>> BY DEF Hit
<1>2. PICK b \in iconvMapHash : /\ mapping[b].hashKey = k
                               /\ given' = given \cup {<<k, mapping[b].iconvDesc>>}
  BY DEF Hit
<1>3. b \in Blocks /\ mapping[b].iconvDesc \in Slots BY DEF TypeOK
<1>4. TypeOK' BY <1>1, <1>2, <1>3 DEF TypeOK, lists, hash
<1>5. GivenSound' BY <1>1, <1>2 DEF GivenSound, HashSound, Good, Converts
<1>6. SingleOpener' /\ ListSound' /\ FreeUnset' /\ HashSound' /\ RefusedSound'
  BY <1>1 DEF SingleOpener, ListSound, FreeUnset, HashSound, RefusedSound, Good, Converts, lists, hash
<1>7. \A u \in Threads : ThreadOk(u)'
  BY <1>1 DEF ThreadOk, Good, Converts, lists, hash
<1> QED BY <1>4, <1>5, <1>6, <1>7

LEMMA MissStep ==
  ASSUME IInv, NEW t \in Threads, NEW k \in Keys, Miss(t, k)
  PROVE  IInv'
<1> USE DEF IInv
<1>1. UNCHANGED <<taken, conv, lists, hash, given>> BY DEF Miss
<1>2. CASE EncodingMap[k.myCharset] = NoPage
  <2>1. call' = call /\ refused' = refused \cup {k} BY <1>2 DEF Miss
  <2>2. ~Supported(k) BY <1>2 DEF Supported
  <2>3. TypeOK' BY <1>1, <2>1 DEF TypeOK, lists, hash
  <2>4. RefusedSound' BY <1>1, <2>1, <2>2 DEF RefusedSound
  <2>5. SingleOpener' /\ ListSound' /\ FreeUnset' /\ HashSound' /\ GivenSound'
    BY <1>1, <2>1 DEF SingleOpener, ListSound, FreeUnset, HashSound, GivenSound, Good, Converts, lists, hash
  <2>6. \A u \in Threads : ThreadOk(u)'
    BY <1>1, <2>1 DEF ThreadOk, Good, Converts, lists, hash
  <2> QED BY <2>3, <2>4, <2>5, <2>6
<1>3. CASE EncodingMap[k.myCharset] # NoPage
  <2>1. refused' = refused /\ call' = [call EXCEPT ![t].at = "open", ![t].key = k]
    BY <1>3 DEF Miss
  <2>2. call[t].at = "idle" BY DEF Miss, At
  <2>3. call \in [Threads -> CallRecord] BY DEF TypeOK, CallRecord
  <2>4. /\ call'[t].at = "open" /\ call'[t].key = k /\ call' \in [Threads -> CallRecord]
        /\ \A u \in Threads \ {t} : call'[u] = call[u]
    BY <2>1, <2>3, ZenonT(60) DEF CallRecord, Labels
  <2>5. TypeOK' BY <1>1, <2>1, <2>4 DEF TypeOK, lists, hash, CallRecord
  <2>6. SingleOpener' BY <2>2, <2>4 DEF SingleOpener, Opening
  <2>7. ListSound'
    BY <1>1, <2>2, <2>4 DEF ListSound, lists
  <2>8. FreeUnset' /\ HashSound' /\ GivenSound' /\ RefusedSound'
    BY <1>1, <2>1 DEF FreeUnset, HashSound, GivenSound, RefusedSound, Good, Converts, lists, hash
  <2>9. \A u \in Threads : ThreadOk(u)'
    <3> SUFFICES ASSUME NEW u \in Threads PROVE ThreadOk(u)' OBVIOUS
    <3>1. CASE u = t BY <3>1, <2>4, <1>3 DEF ThreadOk, Opening, Building
    <3>2. CASE u # t BY <3>2, <2>4, <1>1 DEF ThreadOk, Good, Converts, lists, hash
    <3> QED BY <3>1, <3>2
  <2> QED BY <2>5, <2>6, <2>7, <2>8, <2>9
<1> QED BY <1>2, <1>3

(* A thread that only moves on changes nothing the others rely on.         *)
LEMMA OthersKept ==
  ASSUME IInv, NEW t \in Threads, NEW u \in Threads \ {t},
         call'[u] = call[u],
         call[u].at \notin Opening,
         \A d \in Slots : conv[d] # Unset => conv'[d] = conv[d],
         \A b \in Blocks : b < freeBlock => mapping'[b] = mapping[b],
         freeBlock' >= freeBlock, freeBlock' \in Nat
  PROVE  ThreadOk(u)'
<1>1. ThreadOk(u) BY DEF IInv
<1>2. call[u] \in CallRecord /\ freeBlock \in Nat
  BY SizesAssumption DEF IInv, TypeOK, CallRecord
<1>3. call[u].slot \in Slots /\ call[u].block \in Blocks /\ call[u].block \in Nat
  BY <1>2 DEF CallRecord, Blocks
<1>4. CASE call[u].at \in {"lock", "insert"}
  <2>1. Good(call[u].slot, call[u].key)' BY <1>1, <1>3, <1>4 DEF ThreadOk, Good, Converts
  <2>2. call[u].block < freeBlock' BY <1>1, <1>2, <1>3, <1>4 DEF ThreadOk
  <2>3. mapping'[call[u].block] = mapping[call[u].block] BY <1>1, <1>3, <1>4 DEF ThreadOk
  <2> QED BY <1>1, <1>4, <2>1, <2>2, <2>3 DEF ThreadOk, Opening, Building
<1>5. CASE call[u].at \notin {"lock", "insert"}
  BY <1>1, <1>5 DEF ThreadOk, Opening, Building
<1> QED BY <1>4, <1>5

(* While a thread opens no other one does.                                 *)
LEMMA OnlyOpener ==
  ASSUME IInv, NEW t \in Threads, call[t].at \in Opening, NEW u \in Threads \ {t}
  PROVE  call[u].at \notin Opening
BY DEF IInv, SingleOpener

LEMMA ScanRecordsStep ==
  ASSUME IInv, OneOpener, NEW t \in Threads, ScanRecords(t)
  PROVE  IInv'
<1> USE DEF IInv
<1>1. UNCHANGED <<taken, conv, lists, hash>> BY DEF ScanRecords
<1>2. call \in [Threads -> CallRecord] BY DEF TypeOK, CallRecord
<1>3. \A u \in Threads : call[u].at \notin Opening BY DEF ScanRecords
<1>10. ThreadOk(t) /\ call[t].at = "open" BY DEF ScanRecords, At
<1>4. SUFFICES ASSUME /\ call' \in [Threads -> CallRecord]
                      /\ \A u \in Threads \ {t} : call'[u] = call[u]
                      /\ ThreadOk(t)' /\ given' = given
                      /\ refused' \subseteq Keys /\ RefusedSound'
               PROVE  IInv'
  <2>1. CASE /\ \A i \in Slots : taken[i]
             /\ Refuse(t)
    <3>1. /\ call' \in [Threads -> CallRecord] /\ call'[t] = Idle
          /\ \A u \in Threads \ {t} : call'[u] = call[u]
      BY <2>1, <1>2, IdleRecord DEF Refuse
    <3>2. ThreadOk(t)' BY <3>1 DEF ThreadOk, Idle, Opening, Building
    <3>3. call[t].key \in Keys BY <1>2 DEF CallRecord
    <3>4. refused' \subseteq Keys /\ RefusedSound'
      BY <1>1, <2>1, <3>3 DEF Refuse, RefusedSound, TypeOK
    <3> QED BY <1>4, <2>1, <3>1, <3>2, <3>4 DEF Refuse
  <2>2. ASSUME NEW i \in Slots, ~taken[i], UNCHANGED answers,
               call' = [call EXCEPT ![t].at = "claim", ![t].slot = i]
        PROVE  IInv'
    <3>1. /\ call' \in [Threads -> CallRecord]
          /\ \A u \in Threads \ {t} : call'[u] = call[u]
          /\ call'[t].at = "claim" /\ call'[t].slot = i /\ call'[t].key = call[t].key
      BY <1>2, <2>2, ZenonT(60) DEF CallRecord, Labels, Opening
    <3>2. ThreadOk(t)' BY <1>1, <1>10, <2>2, <3>1 DEF ThreadOk, FreeUnset, Opening, Building
    <3>3. given' = given /\ refused' \subseteq Keys /\ RefusedSound'
      BY <1>1, <2>2 DEF answers, RefusedSound, TypeOK
    <3> QED BY <1>4, <3>1, <3>2, <3>3
  <2> QED BY <2>1, <2>2 DEF ScanRecords
<1>5. TypeOK' BY <1>1, <1>4 DEF TypeOK, CallRecord, lists, hash
<1>6. SingleOpener' BY <1>3, <1>4 DEF SingleOpener
<1>7. ListSound'
  <2>1. \A u \in Threads : call[u].at \notin {"fillFrom", "fillTo"} BY <1>3 DEF Opening
  <2> QED BY <1>1, <2>1 DEF ListSound, lists
<1>8. FreeUnset' /\ HashSound' /\ GivenSound'
  BY <1>1, <1>4 DEF FreeUnset, HashSound, GivenSound, Good, Converts, hash
<1>9. ASSUME NEW u \in Threads PROVE ThreadOk(u)'
  <2>1. CASE u = t BY <2>1, <1>4
  <2>2. CASE u # t
    <3>1. freeBlock' = freeBlock /\ freeBlock \in Nat /\ mapping' = mapping
      BY <1>1, SizesAssumption DEF hash, TypeOK
    <3> QED BY <2>2, <3>1, <1>1, <1>3, <1>4, OthersKept
  <2> QED BY <2>1, <2>2
<1> QED BY <1>4, <1>5, <1>6, <1>7, <1>8, <1>9

LEMMA OpenerMoves ==
  ASSUME IInv, NEW t \in Threads, call[t].at \in Opening,
         \A u \in Threads \ {t} : call'[u] = call[u],
         \A d \in Slots : conv[d] # Unset => conv'[d] = conv[d],
         \A b \in Blocks : b < freeBlock => mapping'[b] = mapping[b],
         freeBlock' >= freeBlock, freeBlock' \in Nat
  PROVE  SingleOpener' /\ \A u \in Threads \ {t} : ThreadOk(u)'
<1>1. \A u \in Threads \ {t} : call[u].at \notin Opening BY OnlyOpener
<1>2. SingleOpener' BY <1>1 DEF SingleOpener
<1>3. \A u \in Threads \ {t} : ThreadOk(u)' BY <1>1, OthersKept
<1> QED BY <1>2, <1>3

LEMMA OpenerSteps ==
  ASSUME IInv, NEW t \in Threads, call[t].at \in Opening,
         \A u \in Threads \ {t} : call'[u] = call[u],
         UNCHANGED <<conv, mapping, freeBlock>>
  PROVE  SingleOpener' /\ \A u \in Threads \ {t} : ThreadOk(u)'
<1>1. freeBlock \in Nat BY SizesAssumption DEF IInv, TypeOK
<1>2. freeBlock' \in Nat /\ freeBlock' >= freeBlock BY <1>1
<1>3. \A d \in Slots : conv[d] # Unset => conv'[d] = conv[d] OBVIOUS
<1>4. \A b \in Blocks : b < freeBlock => mapping'[b] = mapping[b] OBVIOUS
<1> QED BY <1>2, <1>3, <1>4, OpenerMoves

LEMMA ClaimRecordStep ==
  ASSUME IInv, NEW t \in Threads, ClaimRecord(t)
  PROVE  IInv'
<1> USE DEF IInv
<1>1. UNCHANGED <<conv, lists, hash, answers>> BY DEF ClaimRecord
<1>2. call \in [Threads -> CallRecord] BY DEF TypeOK, CallRecord
<1>3. call[t].at = "claim" /\ call[t].slot \in Slots
  BY <1>2 DEF ClaimRecord, At, CallRecord
<1>4. /\ call' \in [Threads -> CallRecord]
      /\ \A u \in Threads \ {t} : call'[u] = call[u]
      /\ call'[t] = [call[t] EXCEPT !.at = "from"]
  BY <1>2 DEF ClaimRecord, Goto, CallRecord, Labels, Opening
<1>5. taken' = [taken EXCEPT ![call[t].slot] = TRUE] BY DEF ClaimRecord
<1>6. TypeOK' BY <1>1, <1>4, <1>5 DEF TypeOK, CallRecord, lists, hash, answers
<1>7. ThreadOk(t)'
  <2>1. ThreadOk(t) OBVIOUS
  <2>2. /\ call'[t].at = "from" /\ call'[t].slot = call[t].slot
        /\ call'[t].key = call[t].key
    BY <1>4, <1>2 DEF CallRecord
  <2>3. taken'[call'[t].slot] BY <1>3, <1>5, <2>2 DEF TypeOK
  <2> QED BY <1>1, <1>3, <2>1, <2>2, <2>3 DEF ThreadOk, Opening, Building
<1>8. SingleOpener' /\ \A u \in Threads \ {t} : ThreadOk(u)'
  <2>1. call[t].at \in Opening /\ UNCHANGED <<conv, mapping, freeBlock>>
    BY <1>1, <1>3 DEF hash, Opening
  <2> QED BY <2>1, <1>4, OpenerSteps
<1>9. ListSound' BY <1>1, <1>3, <1>4 DEF ListSound, lists
<1>10. FreeUnset' /\ HashSound' /\ GivenSound' /\ RefusedSound'
  BY <1>1, <1>3, <1>5
  DEF FreeUnset, HashSound, GivenSound, RefusedSound, Good, Converts, hash, answers, TypeOK
<1> QED BY <1>6, <1>7, <1>8, <1>9, <1>10

(* The list of schemes while nobody fills it.                              *)
LEMMA FoundScheme ==
  ASSUME IInv, NEW t \in Threads, call[t].at \in Opening \ {"fillFrom", "fillTo"},
         NEW i \in Entries, ccsidList[i] # NoPage
  PROVE  esList[i] = Scheme[ccsidList[i]]
<1>1. \A u \in Threads : call[u].at \notin {"fillFrom", "fillTo"}
  BY OnlyOpener DEF Opening
<1> QED BY <1>1 DEF IInv, ListSound

LEMMA KeyHasPages ==
  ASSUME NEW k \in Keys, EncodingMap[k.myCharset] # NoPage
  PROVE  FromPage(k) # NoPage /\ ToPage(k) # NoPage
BY PagesAssumption DEF Keys, FromPage, ToPage

LEMMA FindFromStep ==
  ASSUME IInv, NEW t \in Threads, FindFrom(t)
  PROVE  IInv'
<1> USE DEF IInv
<1> DEFINE p == FromPage(call[t].key)
<1>1. UNCHANGED <<lists, answers, taken, conv, hash>> BY DEF FindFrom
<1>2. call \in [Threads -> CallRecord] BY DEF TypeOK, CallRecord
<1>3. call[t].at = "from" /\ call[t].key \in Keys /\ call[t] \in CallRecord
  BY <1>2 DEF FindFrom, At, CallRecord
<1>4. ThreadOk(t) OBVIOUS
<1>5. p # NoPage BY <1>3, <1>4, KeyHasPages DEF ThreadOk
<1>6. SUFFICES ASSUME /\ call' \in [Threads -> CallRecord]
                      /\ \A u \in Threads \ {t} : call'[u] = call[u]
                      /\ ThreadOk(t)'
               PROVE  IInv'
  <2>1. PICK i \in Entries :
           call' = IF ccsidList[i] = p
                     THEN [call EXCEPT ![t].at = "to", ![t].from = esList[i]]
                     ELSE [call EXCEPT ![t].at = "putFrom", ![t].entry = i]
    BY DEF FindFrom
  <2>2. CASE ccsidList[i] = p
    <3>1. esList[i] = Scheme[p] BY <2>2, <1>3, <1>5, FoundScheme DEF Opening
    <3>2. esList[i] \in Schemes BY DEF TypeOK
    <3>3. call' = [call EXCEPT ![t] = [call[t] EXCEPT !.at = "to", !.from = esList[i]]]
      BY <2>1, <2>2
    <3>4. [call[t] EXCEPT !.at = "to", !.from = esList[i]] \in CallRecord
      BY <1>3, <3>2 DEF CallRecord, Labels, Opening
    <3>5. ThreadOk(t)'
      <4>1. /\ call'[t].at = "to" /\ call'[t].from = esList[i]
            /\ call'[t].slot = call[t].slot /\ call'[t].key = call[t].key
        BY <1>2, <1>3, <3>3 DEF CallRecord
      <4> QED BY <1>1, <1>3, <1>4, <3>1, <4>1 DEF ThreadOk, Opening, Building
    <3> QED BY <1>2, <1>6, <3>3, <3>4, <3>5
  <2>3. CASE ccsidList[i] # p
    <3>1. call' = [call EXCEPT ![t] = [call[t] EXCEPT !.at = "putFrom", !.entry = i]]
      BY <2>1, <2>3
    <3>2. [call[t] EXCEPT !.at = "putFrom", !.entry = i] \in CallRecord
      BY <1>3 DEF CallRecord, Labels, Opening
    <3>3. ThreadOk(t)'
      <4>1. /\ call'[t].at = "putFrom"
            /\ call'[t].slot = call[t].slot /\ call'[t].key = call[t].key
        BY <1>2, <1>3, <3>1 DEF CallRecord
      <4> QED BY <1>1, <1>3, <1>4, <4>1 DEF ThreadOk, Opening, Building
    <3> QED BY <1>2, <1>6, <3>1, <3>2, <3>3
  <2> QED BY <2>2, <2>3
<1>7. TypeOK' BY <1>1, <1>6 DEF TypeOK, CallRecord, lists, hash, answers
<1>8. SingleOpener' /\ \A u \in Threads \ {t} : ThreadOk(u)'
  <2>1. call[t].at \in Opening /\ UNCHANGED <<conv, mapping, freeBlock>>
    BY <1>1, <1>3 DEF hash, Opening
  <2> QED BY <2>1, <1>6, OpenerSteps
<1>9. ListSound' BY <1>1, <1>3, <1>6 DEF ListSound, lists
<1>10. FreeUnset' /\ HashSound' /\ GivenSound' /\ RefusedSound'
  BY <1>1 DEF FreeUnset, HashSound, GivenSound, RefusedSound, Good, Converts, hash, answers
<1> QED BY <1>6, <1>7, <1>8, <1>9, <1>10

LEMMA FindToStep ==
  ASSUME IInv, NEW t \in Threads, FindTo(t)
  PROVE  IInv'
<1> USE DEF IInv
<1> DEFINE p == ToPage(call[t].key)
<1>1. UNCHANGED <<lists, answers, taken, conv, hash>> BY DEF FindTo
<1>2. call \in [Threads -> CallRecord] BY DEF TypeOK, CallRecord
<1>3. call[t].at = "to" /\ call[t].key \in Keys /\ call[t] \in CallRecord
  BY <1>2 DEF FindTo, At, CallRecord
<1>4. ThreadOk(t) OBVIOUS
<1>5. p # NoPage BY <1>3, <1>4, KeyHasPages DEF ThreadOk
<1>6. SUFFICES ASSUME /\ call' \in [Threads -> CallRecord]
                      /\ \A u \in Threads \ {t} : call'[u] = call[u]
                      /\ ThreadOk(t)'
               PROVE  IInv'
  <2>1. PICK i \in Entries :
           call' = IF ccsidList[i] = p
                     THEN [call EXCEPT ![t].at = "build", ![t].to = esList[i]]
                     ELSE [call EXCEPT ![t].at = "putTo", ![t].entry = i]
    BY DEF FindTo
  <2>2. CASE ccsidList[i] = p
    <3>1. esList[i] = Scheme[p] BY <2>2, <1>3, <1>5, FoundScheme DEF Opening
    <3>2. esList[i] \in Schemes BY DEF TypeOK
    <3>3. call' = [call EXCEPT ![t] = [call[t] EXCEPT !.at = "build", !.to = esList[i]]]
      BY <2>1, <2>2
    <3>4. [call[t] EXCEPT !.at = "build", !.to = esList[i]] \in CallRecord
      BY <1>3, <3>2 DEF CallRecord, Labels, Opening
    <3>5. ThreadOk(t)'
      <4>1. /\ call'[t].at = "build" /\ call'[t].to = esList[i] /\ call'[t].from = call[t].from
            /\ call'[t].slot = call[t].slot /\ call'[t].key = call[t].key
        BY <1>2, <1>3, <3>3 DEF CallRecord
      <4> QED BY <1>1, <1>3, <1>4, <3>1, <4>1 DEF ThreadOk, Opening, Building
    <3> QED BY <1>2, <1>6, <3>3, <3>4, <3>5
  <2>3. CASE ccsidList[i] # p
    <3>1. call' = [call EXCEPT ![t] = [call[t] EXCEPT !.at = "putTo", !.entry = i]]
      BY <2>1, <2>3
    <3>2. [call[t] EXCEPT !.at = "putTo", !.entry = i] \in CallRecord
      BY <1>3 DEF CallRecord, Labels, Opening
    <3>3. ThreadOk(t)'
      <4>1. /\ call'[t].at = "putTo" /\ call'[t].from = call[t].from
            /\ call'[t].slot = call[t].slot /\ call'[t].key = call[t].key
        BY <1>2, <1>3, <3>1 DEF CallRecord
      <4> QED BY <1>1, <1>3, <1>4, <4>1 DEF ThreadOk, Opening, Building
    <3> QED BY <1>2, <1>6, <3>1, <3>2, <3>3
  <2> QED BY <2>2, <2>3
<1>7. TypeOK' BY <1>1, <1>6 DEF TypeOK, CallRecord, lists, hash, answers
<1>8. SingleOpener' /\ \A u \in Threads \ {t} : ThreadOk(u)'
  <2>1. call[t].at \in Opening /\ UNCHANGED <<conv, mapping, freeBlock>>
    BY <1>1, <1>3 DEF hash, Opening
  <2> QED BY <2>1, <1>6, OpenerSteps
<1>9. ListSound' BY <1>1, <1>3, <1>6 DEF ListSound, lists
<1>10. FreeUnset' /\ HashSound' /\ GivenSound' /\ RefusedSound'
  BY <1>1 DEF FreeUnset, HashSound, GivenSound, RefusedSound, Good, Converts, hash, answers
<1> QED BY <1>6, <1>7, <1>8, <1>9, <1>10

(* What a step of the opener that works on the list leaves alone.          *)
LEMMA ListStep ==
  ASSUME IInv, NEW t \in Threads, call[t].at \in Opening,
         UNCHANGED <<answers, taken, conv, hash>>,
         call' \in [Threads -> CallRecord],
         \A u \in Threads \ {t} : call'[u] = call[u],
         ccsidList' \in [Entries -> Pages \cup {NoPage}], esList' \in [Entries -> Schemes],
         ThreadOk(t)', ListSound'
  PROVE  IInv'
<1> USE DEF IInv
<1>1. TypeOK' BY DEF TypeOK, CallRecord, hash, answers
<1>2. SingleOpener' /\ \A u \in Threads \ {t} : ThreadOk(u)'
  BY OpenerSteps DEF hash
<1>3. FreeUnset' /\ HashSound' /\ GivenSound' /\ RefusedSound'
  BY DEF FreeUnset, HashSound, GivenSound, RefusedSound, Good, Converts, hash, answers
<1> QED BY <1>1, <1>2, <1>3

LEMMA PutPageStep ==
  ASSUME IInv, NEW t \in Threads, PutPage(t)
  PROVE  IInv'
<1> USE DEF IInv
<1>1. UNCHANGED <<esList, answers, taken, conv, hash>> BY DEF PutPage
<1>2. call \in [Threads -> CallRecord] BY DEF TypeOK, CallRecord
<1>3. call[t] \in CallRecord /\ call[t].entry \in Entries BY <1>2 DEF CallRecord
<1>4. ThreadOk(t) OBVIOUS
<1>5. ASSUME call[t].at \in Opening \ {"fillFrom", "fillTo"},
             call'[t].at \in {"fillFrom", "fillTo"}, call'[t].entry = call[t].entry,
             call' \in [Threads -> CallRecord],
             \A u \in Threads \ {t} : call'[u] = call[u],
             NEW p, ccsidList' = [ccsidList EXCEPT ![call[t].entry] = p],
             ccsidList' \in [Entries -> Pages \cup {NoPage}], ThreadOk(t)'
      PROVE  IInv'
  <2>1. ListSound'
    <3> SUFFICES ASSUME NEW i \in Entries
                 PROVE  \/ ccsidList'[i] = NoPage
                        \/ esList'[i] = Scheme[ccsidList'[i]]
                        \/ \E u \in Threads : /\ call'[u].at \in {"fillFrom", "fillTo"}
                                              /\ call'[u].entry = i
      BY DEF ListSound
    <3>1. CASE i = call[t].entry BY <3>1, <1>5
    <3>2. CASE i # call[t].entry
      <4>1. ccsidList'[i] = ccsidList[i] /\ esList'[i] = esList[i]
        BY <3>2, <1>1, <1>5 DEF TypeOK
      <4> QED BY <4>1, <1>5, FoundScheme
    <3> QED BY <3>1, <3>2
  <2>2. esList' \in [Entries -> Schemes] BY <1>1 DEF TypeOK
  <2> QED BY <1>1, <1>5, <2>1, <2>2, ListStep
<1>6. CASE At(t, "putFrom")
  <2>1. /\ call[t].at = "putFrom" /\ call' = [call EXCEPT ![t].at = "fillFrom"]
        /\ ccsidList' = [ccsidList EXCEPT ![call[t].entry] = FromPage(call[t].key)]
    BY <1>6 DEF PutPage, At, Goto
  <2>2. /\ call' \in [Threads -> CallRecord]
        /\ \A u \in Threads \ {t} : call'[u] = call[u]
        /\ call'[t] = [call[t] EXCEPT !.at = "fillFrom"]
    BY <1>2, <2>1 DEF CallRecord, Labels, Opening
  <2>3. /\ call'[t].at = "fillFrom" /\ call'[t].slot = call[t].slot /\ call'[t].key = call[t].key
        /\ call'[t].entry = call[t].entry
    BY <1>3, <2>2 DEF CallRecord
  <2>4. FromPage(call[t].key) \in Pages BY <1>3, PagesOfKeys DEF CallRecord
  <2>5. ccsidList' \in [Entries -> Pages \cup {NoPage}] BY <2>1, <2>4 DEF TypeOK
  <2>6. ccsidList'[call[t].entry] = FromPage(call[t].key)
    BY <1>3, <2>1 DEF TypeOK, CallRecord
  <2>7. ThreadOk(t)' BY <1>1, <1>4, <2>1, <2>3, <2>6 DEF ThreadOk, Opening, Building
  <2> QED BY <1>5, <2>1, <2>2, <2>3, <2>5, <2>7 DEF Opening
<1>7. CASE At(t, "putTo")
  <2>1. /\ call[t].at = "putTo" /\ call' = [call EXCEPT ![t].at = "fillTo"]
        /\ ccsidList' = [ccsidList EXCEPT ![call[t].entry] = ToPage(call[t].key)]
    BY <1>7 DEF PutPage, At, Goto
  <2>2. /\ call' \in [Threads -> CallRecord]
        /\ \A u \in Threads \ {t} : call'[u] = call[u]
        /\ call'[t] = [call[t] EXCEPT !.at = "fillTo"]
    BY <1>2, <2>1 DEF CallRecord, Labels, Opening
  <2>3. /\ call'[t].at = "fillTo" /\ call'[t].slot = call[t].slot /\ call'[t].key = call[t].key
        /\ call'[t].entry = call[t].entry /\ call'[t].from = call[t].from
    BY <1>3, <2>2 DEF CallRecord
  <2>4. ToPage(call[t].key) \in Pages BY <1>3, PagesOfKeys DEF CallRecord
  <2>5. ccsidList' \in [Entries -> Pages \cup {NoPage}] BY <2>1, <2>4 DEF TypeOK
  <2>6. ccsidList'[call[t].entry] = ToPage(call[t].key)
    BY <1>3, <2>1 DEF TypeOK, CallRecord
  <2>7. ThreadOk(t)' BY <1>1, <1>4, <2>1, <2>3, <2>6 DEF ThreadOk, Opening, Building
  <2> QED BY <1>5, <2>1, <2>2, <2>3, <2>5, <2>7 DEF Opening
<1> QED BY <1>6, <1>7 DEF PutPage

LEMMA FillSchemeStep ==
  ASSUME IInv, NEW t \in Threads, FillScheme(t)
  PROVE  IInv'
<1> USE DEF IInv
<1>1. UNCHANGED <<ccsidList, answers, taken, conv, hash>> BY DEF FillScheme
<1>2. call \in [Threads -> CallRecord] BY DEF TypeOK, CallRecord
<1>3. call[t] \in CallRecord /\ call[t].entry \in Entries BY <1>2 DEF CallRecord
<1>4. ThreadOk(t) OBVIOUS
<1>5. ASSUME call[t].at \in {"fillFrom", "fillTo"}, call' \in [Threads -> CallRecord],
             \A u \in Threads \ {t} : call'[u] = call[u],
             NEW p \in Pages, ccsidList[call[t].entry] = p,
             esList' = [esList EXCEPT ![call[t].entry] = Scheme[p]], ThreadOk(t)'
      PROVE  IInv'
  <2>1. call[t].at \in Opening BY <1>5 DEF Opening
  <2>2. ListSound'
    <3> SUFFICES ASSUME NEW i \in Entries
                 PROVE  ccsidList'[i] = NoPage \/ esList'[i] = Scheme[ccsidList'[i]]
      BY DEF ListSound
    <3>1. CASE i = call[t].entry BY <3>1, <1>1, <1>5 DEF TypeOK
    <3>2. CASE i # call[t].entry
      <4>1. ccsidList'[i] = ccsidList[i] /\ esList'[i] = esList[i]
        BY <3>2, <1>1, <1>5 DEF TypeOK
      <4>2. \A u \in Threads : call[u].at \in {"fillFrom", "fillTo"} => u = t
        BY <2>1, OnlyOpener DEF Opening
      <4> QED BY <3>2, <4>1, <4>2 DEF ListSound
    <3> QED BY <3>1, <3>2
  <2>3. esList' \in [Entries -> Schemes] BY <1>5, PagesAssumption DEF TypeOK
  <2>4. ccsidList' \in [Entries -> Pages \cup {NoPage}] BY <1>1 DEF TypeOK
  <2> QED BY <1>1, <1>5, <2>1, <2>2, <2>3, <2>4, ListStep
<1>6. CASE At(t, "fillFrom")
  <2> DEFINE p == FromPage(call[t].key)
  <2>1. /\ call[t].at = "fillFrom"
        /\ call' = [call EXCEPT ![t] = [call[t] EXCEPT !.at = "to", !.from = Scheme[p]]]
        /\ esList' = [esList EXCEPT ![call[t].entry] = Scheme[p]]
    BY <1>6 DEF FillScheme, At
  <2>2. p \in Pages /\ Scheme[p] \in Schemes BY <1>3, PagesOfKeys DEF CallRecord
  <2>3. [call[t] EXCEPT !.at = "to", !.from = Scheme[p]] \in CallRecord
    BY <1>3, <2>2 DEF CallRecord, Labels, Opening
  <2>4. /\ call' \in [Threads -> CallRecord]
        /\ \A u \in Threads \ {t} : call'[u] = call[u]
        /\ call'[t] = [call[t] EXCEPT !.at = "to", !.from = Scheme[p]]
    BY <1>2, <2>1, <2>3
  <2>5. /\ call'[t].at = "to" /\ call'[t].slot = call[t].slot /\ call'[t].key = call[t].key
        /\ call'[t].from = Scheme[p]
    BY <1>3, <2>4 DEF CallRecord
  <2>6. ccsidList[call[t].entry] = p BY <1>4, <2>1 DEF ThreadOk
  <2>7. ThreadOk(t)' BY <1>1, <1>4, <2>1, <2>5 DEF ThreadOk, Opening, Building
  <2> QED BY <1>5, <2>1, <2>2, <2>4, <2>6, <2>7
<1>7. CASE At(t, "fillTo")
  <2> DEFINE p == ToPage(call[t].key)
  <2>1. /\ call[t].at = "fillTo"
        /\ call' = [call EXCEPT ![t] = [call[t] EXCEPT !.at = "build", !.to = Scheme[p]]]
        /\ esList' = [esList EXCEPT ![call[t].entry] = Scheme[p]]
    BY <1>7 DEF FillScheme, At
  <2>2. p \in Pages /\ Scheme[p] \in Schemes BY <1>3, PagesOfKeys DEF CallRecord
  <2>3. [call[t] EXCEPT !.at = "build", !.to = Scheme[p]] \in CallRecord
    BY <1>3, <2>2 DEF CallRecord, Labels, Opening
  <2>4. /\ call' \in [Threads -> CallRecord]
        /\ \A u \in Threads \ {t} : call'[u] = call[u]
        /\ call'[t] = [call[t] EXCEPT !.at = "build", !.to = Scheme[p]]
    BY <1>2, <2>1, <2>3
  <2>5. /\ call'[t].at = "build" /\ call'[t].slot = call[t].slot /\ call'[t].key = call[t].key
        /\ call'[t].to = Scheme[p] /\ call'[t].from = call[t].from
    BY <1>3, <2>4 DEF CallRecord
  <2>6. ccsidList[call[t].entry] = p BY <1>4, <2>1 DEF ThreadOk
  <2>7. ThreadOk(t)' BY <1>1, <1>4, <2>1, <2>5 DEF ThreadOk, Opening, Building
  <2> QED BY <1>5, <2>1, <2>2, <2>4, <2>6, <2>7
<1> QED BY <1>6, <1>7 DEF FillScheme

LEMMA BuildTablesStep ==
  ASSUME IInv, NEW t \in Threads, BuildTables(t)
  PROVE  IInv'
<1> USE DEF IInv
<1> DEFINE c == call[t]
<1>1. UNCHANGED <<lists, taken, hash>> BY DEF BuildTables
<1>2. call \in [Threads -> CallRecord] BY DEF TypeOK, CallRecord
<1>3. c \in CallRecord /\ c.at = "build" BY <1>2 DEF BuildTables, At
<1>4. ThreadOk(t) OBVIOUS
<1>5. /\ c.from = Scheme[FromPage(c.key)] /\ c.to = Scheme[ToPage(c.key)]
      /\ conv[c.slot] = Unset /\ taken[c.slot] /\ c.slot \in Slots /\ c.key \in Keys
      /\ c.from \in Schemes /\ c.to \in Schemes
  BY <1>3, <1>4 DEF ThreadOk, Opening, Building, CallRecord
<1>9. SourceScheme(c) = c.from BY <1>5 DEF SourceScheme
<1>6. CASE HasTables(c.from, c.to)
  <2> DEFINE new == [pages |-> <<FromPage(c.key), ToPage(c.key)>>, schemes |-> <<c.from, c.to>>]
  <2>1. /\ conv' = [conv EXCEPT ![c.slot] = new]
        /\ call' = [call EXCEPT ![t].at = "alloc"] /\ UNCHANGED answers
    BY <1>6, <1>9 DEF BuildTables, Goto
  <2>2. new \in [pages : (Pages \cup {NoPage}) \X (Pages \cup {NoPage}), schemes : Schemes \X Schemes]
    BY <1>5, PagesOfKeys
  <2>3. c.from # "none" BY <1>6 DEF HasTables
  <2>4. new # Unset BY <2>3 DEF Unset
  <2>5. conv'[c.slot] = new /\ \A d \in Slots \ {c.slot} : conv'[d] = conv[d]
    BY <1>5, <2>1 DEF TypeOK
  <2>6. \A d \in Slots : conv[d] # Unset => conv'[d] = conv[d] BY <1>5, <2>5
  <2>7. /\ call' \in [Threads -> CallRecord]
        /\ \A u \in Threads \ {t} : call'[u] = call[u]
        /\ call'[t] = [call[t] EXCEPT !.at = "alloc"]
    BY <1>2, <2>1 DEF CallRecord, Labels, Opening
  <2>8. /\ call'[t].at = "alloc" /\ call'[t].slot = c.slot /\ call'[t].key = c.key
    BY <1>3, <2>7 DEF CallRecord
  <2>9. Good(c.slot, c.key)' BY <1>5, <2>4, <2>5, <2>8 DEF Good, Converts
  <2>10. ThreadOk(t)' BY <1>1, <1>3, <1>4, <1>5, <2>8, <2>9 DEF ThreadOk, Opening, Building
  <2>11. TypeOK'
    <3>1. conv' \in [Slots -> [pages : (Pages \cup {NoPage}) \X (Pages \cup {NoPage}),
                              schemes : Schemes \X Schemes]]
      BY <2>1, <2>2 DEF TypeOK
    <3> QED BY <1>1, <2>1, <2>7, <3>1 DEF TypeOK, CallRecord, lists, hash, answers
  <2>12. SingleOpener' /\ \A u \in Threads \ {t} : ThreadOk(u)'
    <3>1. /\ freeBlock' \in Nat /\ freeBlock' >= freeBlock
          /\ \A d \in Blocks : d < freeBlock => mapping'[d] = mapping[d]
      BY <1>1, SizesAssumption DEF hash, TypeOK
    <3>2. call[t].at \in Opening BY <1>3 DEF Opening
    <3> QED BY <2>6, <2>7, <3>1, <3>2, OpenerMoves
  <2>13. ListSound' BY <1>1, <1>3, <2>7 DEF ListSound, lists
  <2>14. FreeUnset' BY <1>1, <1>5, <2>5 DEF FreeUnset
  <2>15. \A d \in Slots, k \in Keys : Good(d, k) => Good(d, k)'
    BY <2>6 DEF Good, Converts
  <2>16. HashSound' /\ GivenSound'
    <3>1. \A d \in iconvMapHash : mapping[d].iconvDesc \in Slots /\ mapping[d].hashKey \in Keys
      BY DEF TypeOK
    <3>2. \A g \in given : g[2] \in Slots /\ g[1] \in Keys BY DEF TypeOK
    <3>3. HashSound' BY <1>1, <2>15, <3>1 DEF HashSound, hash
    <3>4. GivenSound' BY <2>1, <2>15, <3>2 DEF GivenSound, answers
    <3> QED BY <3>3, <3>4
  <2>17. RefusedSound' BY <1>1, <2>1 DEF RefusedSound, answers
  <2> QED BY <2>10, <2>11, <2>12, <2>13, <2>14, <2>16, <2>17
<1>7. CASE ~HasTables(c.from, c.to)
  <2>1. /\ call' = [call EXCEPT ![t] = Idle] /\ refused' = refused \cup {c.key}
        /\ UNCHANGED <<given, conv>>
    BY <1>7, <1>9 DEF BuildTables, Refuse
  <2>2. ~Supported(c.key) BY <1>5, <1>7 DEF Supported
  <2>3. /\ call' \in [Threads -> CallRecord] /\ call'[t] = Idle
        /\ \A u \in Threads \ {t} : call'[u] = call[u]
    BY <1>2, <2>1, IdleRecord
  <2>4. ThreadOk(t)' BY <2>3 DEF ThreadOk, Idle, Opening, Building
  <2>5. TypeOK' BY <1>1, <1>5, <2>1, <2>3 DEF TypeOK, CallRecord, lists, hash
  <2>6. SingleOpener' /\ \A u \in Threads \ {t} : ThreadOk(u)'
    <3>1. call[t].at \in Opening /\ UNCHANGED <<conv, mapping, freeBlock>>
      BY <1>1, <1>3, <2>1 DEF hash, Opening
    <3> QED BY <2>3, <3>1, OpenerSteps
  <2>7. ListSound' BY <1>1, <1>3, <2>3 DEF ListSound, lists
  <2>8. FreeUnset' /\ HashSound' /\ GivenSound'
    BY <1>1, <2>1 DEF FreeUnset, HashSound, GivenSound, Good, Converts, hash
  <2>9. RefusedSound' BY <1>1, <2>1, <2>2 DEF RefusedSound
  <2> QED BY <2>4, <2>5, <2>6, <2>7, <2>8, <2>9
<1> QED BY <1>6, <1>7

LEMMA FindBlockStep ==
  ASSUME IInv, NEW t \in Threads, FindBlock(t)
  PROVE  IInv'
<1> USE DEF IInv
<1>1. UNCHANGED <<lists, answers, taken, conv, hash>> BY DEF FindBlock
<1>2. call \in [Threads -> CallRecord] BY DEF TypeOK, CallRecord
<1>3. call[t] \in CallRecord /\ call[t].at = "alloc" BY <1>2 DEF FindBlock, At
<1>4. ThreadOk(t) OBVIOUS
<1>5. SUFFICES ASSUME /\ call' \in [Threads -> CallRecord]
                      /\ \A u \in Threads \ {t} : call'[u] = call[u]
                      /\ ThreadOk(t)'
               PROVE  IInv'
  <2>1. CASE freeBlock > MaxBlocks
    <3>1. call' = [call EXCEPT ![t] = Idle] BY <2>1 DEF FindBlock
    <3>2. ThreadOk(t)' BY <1>2, <3>1 DEF ThreadOk, Idle, Opening, Building
    <3> QED BY <1>2, <1>5, <3>1, <3>2, IdleRecord
  <2>2. CASE ~(freeBlock > MaxBlocks)
    <3>1. call' = [call EXCEPT ![t] = [call[t] EXCEPT !.at = "take", !.block = freeBlock]]
      BY <2>2 DEF FindBlock
    <3>2. freeBlock \in Blocks BY <2>2, SizesAssumption DEF TypeOK, Blocks
    <3>3. [call[t] EXCEPT !.at = "take", !.block = freeBlock] \in CallRecord
      BY <1>3, <3>2 DEF CallRecord, Labels, Opening
    <3>4. /\ call'[t].at = "take" /\ call'[t].slot = call[t].slot /\ call'[t].key = call[t].key
          /\ call'[t].block = freeBlock
      BY <1>2, <1>3, <3>1 DEF CallRecord
    <3>5. ThreadOk(t)'
      <4>1. Good(call[t].slot, call[t].key)' BY <1>1, <1>3, <1>4, <3>4 DEF ThreadOk, Good, Converts
      <4>2. freeBlock' = freeBlock BY <1>1 DEF hash
      <4> QED BY <1>1, <1>3, <1>4, <3>4, <4>1, <4>2 DEF ThreadOk, Opening, Building
    <3> QED BY <1>2, <1>5, <3>1, <3>3, <3>5
  <2> QED BY <2>1, <2>2
<1>6. ccsidList' \in [Entries -> Pages \cup {NoPage}] /\ esList' \in [Entries -> Schemes]
  BY <1>1 DEF TypeOK, lists
<1>7. ListSound' BY <1>1, <1>3, <1>5 DEF ListSound, lists
<1>8. call[t].at \in Opening BY <1>3 DEF Opening
<1> QED BY <1>1, <1>5, <1>6, <1>7, <1>8, ListStep

LEMMA FillBlockStep ==
  ASSUME IInv, NEW t \in Threads, FillBlock(t)
  PROVE  IInv'
<1> USE DEF IInv
<1> DEFINE c == call[t]
<1> DEFINE rec == [hashKey |-> c.key, iconvDesc |-> c.slot]
<1>1. UNCHANGED <<lists, answers, taken, conv, iconvMapHash, holder>> BY DEF FillBlock
<1>2. call \in [Threads -> CallRecord] BY DEF TypeOK, CallRecord
<1>3. c \in CallRecord /\ c.at = "take" BY <1>2 DEF FillBlock, At
<1>4. ThreadOk(t) OBVIOUS
<1>5. /\ c.block = freeBlock /\ c.block \in Blocks /\ c.block \in Nat /\ c.block <= MaxBlocks
      /\ c.slot \in Slots /\ c.key \in Keys /\ Good(c.slot, c.key)
  BY <1>3, <1>4, SizesAssumption DEF ThreadOk, CallRecord, Blocks
<1>6. /\ freeBlock' = c.block + 1 /\ mapping' = [mapping EXCEPT ![c.block] = rec]
      /\ call' = [call EXCEPT ![t].at = "lock"]
  BY DEF FillBlock, Goto
<1>7. /\ call' \in [Threads -> CallRecord]
      /\ \A u \in Threads \ {t} : call'[u] = call[u]
      /\ call'[t] = [call[t] EXCEPT !.at = "lock"]
  BY <1>2, <1>6 DEF CallRecord, Labels
<1>8. /\ call'[t].at = "lock" /\ call'[t].slot = c.slot /\ call'[t].key = c.key
      /\ call'[t].block = c.block
  BY <1>3, <1>7 DEF CallRecord
<1>9. mapping'[c.block] = rec /\ \A b \in Blocks : b < freeBlock => mapping'[b] = mapping[b]
  <2>1. mapping'[c.block] = rec BY <1>5, <1>6 DEF TypeOK
  <2>2. \A b \in Blocks : b < freeBlock => b # c.block BY <1>5 DEF Blocks
  <2> QED BY <1>6, <2>1, <2>2 DEF TypeOK
<1>10. freeBlock' \in Nat /\ freeBlock' >= freeBlock /\ freeBlock' \in 1..(MaxBlocks + 1)
  BY <1>5, <1>6, SizesAssumption
<1>11. TypeOK'
  <2>1. mapping' \in [Blocks -> [hashKey : Keys, iconvDesc : Slots]] BY <1>5, <1>6 DEF TypeOK
  <2> QED BY <1>1, <1>7, <1>10, <2>1 DEF TypeOK, CallRecord, lists, answers
<1>12. ThreadOk(t)'
  <2>1. Good(c.slot, c.key)' BY <1>1, <1>5, <1>8 DEF Good, Converts
  <2>2. call'[t].block < freeBlock' BY <1>5, <1>6, <1>8
  <2> QED BY <1>1, <1>3, <1>4, <1>8, <1>9, <2>1, <2>2 DEF ThreadOk, Opening, Building
<1>13. SingleOpener' /\ \A u \in Threads \ {t} : ThreadOk(u)'
  <2>1. call[t].at \in Opening BY <1>3 DEF Opening
  <2>2. \A d \in Slots : conv[d] # Unset => conv'[d] = conv[d] BY <1>1
  <2> QED BY <1>7, <1>9, <1>10, <2>1, <2>2, OpenerMoves
<1>14. ListSound' BY <1>1, <1>3, <1>7 DEF ListSound, lists
<1>15. HashSound'
  <2>1. \A b \in iconvMapHash : b \in Blocks /\ b < freeBlock /\ b < freeBlock' /\ mapping'[b] = mapping[b]
    <3>1. \A b \in iconvMapHash : b \in Blocks /\ b \in Nat /\ b < freeBlock
      BY SizesAssumption DEF TypeOK, HashSound, Blocks
    <3> QED BY <1>5, <1>6, <1>9, <3>1
  <2> QED BY <1>1, <2>1 DEF HashSound, Good, Converts
<1>16. FreeUnset' /\ GivenSound' /\ RefusedSound'
  BY <1>1 DEF FreeUnset, GivenSound, RefusedSound, Good, Converts, answers
<1> QED BY <1>11, <1>12, <1>13, <1>14, <1>15, <1>16

LEMMA LockHashStep ==
  ASSUME IInv, NEW t \in Threads, LockHash(t)
  PROVE  IInv'
<1> USE DEF IInv
<1>1. UNCHANGED <<lists, answers, taken, conv, freeBlock, mapping, iconvMapHash>> BY DEF LockHash
<1>2. call \in [Threads -> CallRecord] BY DEF TypeOK, CallRecord
<1>3. call[t] \in CallRecord /\ call[t].at = "lock" BY <1>2 DEF LockHash, At
<1>4. /\ call' \in [Threads -> CallRecord]
      /\ \A u \in Threads \ {t} : call'[u] = call[u]
      /\ call'[t] = [call[t] EXCEPT !.at = "insert"]
  BY <1>2 DEF LockHash, Goto, CallRecord, Labels
<1>5. /\ call'[t].at = "insert" /\ call'[t].slot = call[t].slot /\ call'[t].key = call[t].key
      /\ call'[t].block = call[t].block
  BY <1>3, <1>4 DEF CallRecord
<1>6. TypeOK' BY <1>1, <1>4 DEF LockHash, TypeOK, CallRecord, lists, answers
<1>7. SingleOpener' BY <1>3, <1>4, <1>5, ZenonT(60) DEF SingleOpener, Opening
<1>8. ASSUME NEW u \in Threads PROVE ThreadOk(u)'
  <2>1. ThreadOk(u) OBVIOUS
  <2>2. CASE u = t
    <3>1. Good(call[t].slot, call[t].key)' BY <1>1, <1>3, <1>5, <2>1, <2>2 DEF ThreadOk, Good, Converts
    <3> QED BY <1>1, <1>3, <1>5, <2>1, <2>2, <3>1 DEF ThreadOk, Opening, Building
  <2>3. CASE u # t BY <1>1, <1>4, <2>1, <2>3 DEF ThreadOk, Good, Converts, lists
  <2> QED BY <2>2, <2>3
<1>9. ListSound' BY <1>1, <1>3, <1>4 DEF ListSound, lists
<1>10. FreeUnset' /\ HashSound' /\ GivenSound' /\ RefusedSound'
  BY <1>1 DEF FreeUnset, HashSound, GivenSound, RefusedSound, Good, Converts, answers
<1> QED BY <1>6, <1>7, <1>8, <1>9, <1>10

LEMMA InsertConversionStep ==
  ASSUME IInv, NEW t \in Threads, InsertConversion(t)
  PROVE  IInv'
<1> USE DEF IInv
<1> DEFINE c == call[t]
<1>1. UNCHANGED <<refused, lists, taken, conv, freeBlock, mapping>> BY DEF InsertConversion
<1>2. call \in [Threads -> CallRecord] BY DEF TypeOK, CallRecord
<1>3. c \in CallRecord /\ c.at = "insert" BY <1>2 DEF InsertConversion, At
<1>4. ThreadOk(t) OBVIOUS
<1>5. /\ c.block < freeBlock /\ c.block \in Blocks /\ c.slot \in Slots /\ c.key \in Keys
      /\ mapping[c.block] = [hashKey |-> c.key, iconvDesc |-> c.slot] /\ Good(c.slot, c.key)
  BY <1>3, <1>4 DEF ThreadOk, CallRecord
<1>6. /\ call' = [call EXCEPT ![t] = Idle] /\ holder' = {}
      /\ given' = given \cup {<<c.key, c.slot>>}
      /\ \/ iconvMapHash' = iconvMapHash
         \/ /\ iconvMapHash' = iconvMapHash \cup {c.block}
            /\ \A b \in iconvMapHash : mapping[b].hashKey # c.key
  BY <1>5 DEF InsertConversion
<1>7. /\ call' \in [Threads -> CallRecord] /\ call'[t] = Idle
      /\ \A u \in Threads \ {t} : call'[u] = call[u]
  BY <1>2, <1>6, IdleRecord
<1>8. TypeOK' BY <1>1, <1>5, <1>6, <1>7 DEF TypeOK, CallRecord, lists
<1>9. SingleOpener' BY <1>7 DEF SingleOpener, Idle, Opening
<1>10. ASSUME NEW u \in Threads PROVE ThreadOk(u)'
  <2>1. CASE u = t BY <1>7, <2>1 DEF ThreadOk, Idle, Opening, Building
  <2>2. CASE u # t BY <1>1, <1>7, <2>2 DEF ThreadOk, Good, Converts, lists
  <2> QED BY <2>1, <2>2
<1>11. ListSound' BY <1>1, <1>3, <1>7 DEF ListSound, lists
<1>12. \A d \in Slots, k \in Keys : Good(d, k)' <=> Good(d, k) BY <1>1 DEF Good, Converts
<1>13. HashSound'
  <2>1. (\A b \in iconvMapHash : b < freeBlock /\ Good(mapping[b].iconvDesc, mapping[b].hashKey))'
    <3>1. \A b \in Blocks : mapping[b].iconvDesc \in Slots /\ mapping[b].hashKey \in Keys
      BY DEF TypeOK
    <3> QED BY <1>1, <1>5, <1>6, <1>12, <3>1 DEF HashSound, TypeOK
  <2>2. (\A b, d \in iconvMapHash : mapping[b].hashKey = mapping[d].hashKey => b = d)'
    BY <1>1, <1>5, <1>6 DEF HashSound
  <2> QED BY <2>1, <2>2 DEF HashSound
<1>14. GivenSound' BY <1>5, <1>6, <1>12 DEF GivenSound, TypeOK
<1>15. FreeUnset' /\ RefusedSound' BY <1>1 DEF FreeUnset, RefusedSound
<1> QED BY <1>8, <1>9, <1>10, <1>11, <1>13, <1>14, <1>15

LEMMA InvNext == IInv /\ OneOpener /\ ~LookupsMayFail /\ [Next]_vars => IInv'
<1> SUFFICES ASSUME IInv, OneOpener, ~LookupsMayFail, [Next]_vars PROVE IInv' OBVIOUS
<1>1. ASSUME NEW t \in Threads, Step(t) PROVE IInv'
  <2>1. ASSUME NEW k \in Keys, Hit(t, k) \/ Miss(t, k) PROVE IInv' BY <2>1, HitStep, MissStep
  <2>2. CASE ScanRecords(t) BY <2>2, ScanRecordsStep
  <2>3. CASE ClaimRecord(t) BY <2>3, ClaimRecordStep
  <2>4. CASE FindFrom(t) \/ FindTo(t) BY <2>4, FindFromStep, FindToStep
  <2>5. CASE PutPage(t) \/ FillScheme(t) BY <2>5, PutPageStep, FillSchemeStep
  <2>9. ~FailScheme(t) BY DEF FailScheme
  <2>6. CASE BuildTables(t) BY <2>6, BuildTablesStep
  <2>7. CASE FindBlock(t) \/ FillBlock(t) BY <2>7, FindBlockStep, FillBlockStep
  <2>8. CASE LockHash(t) \/ InsertConversion(t) BY <2>8, LockHashStep, InsertConversionStep
  <2> QED BY <1>1, <2>1, <2>2, <2>3, <2>4, <2>5, <2>6, <2>7, <2>8, <2>9 DEF Step
<1>2. CASE UNCHANGED vars
  BY <1>2 DEF vars, lists, hash, answers, IInv, TypeOK, SingleOpener, ThreadOk, Good, Converts,
              ListSound, FreeUnset, HashSound, GivenSound, RefusedSound
<1> QED BY <1>1, <1>2 DEF Next

LEMMA OnlyOneOpens == ASSUME OneOpener, ~LookupsMayFail PROVE Spec => []IInv
<1>1. IInv /\ [Next]_vars => IInv' BY InvNext
<1> QED BY InvInit, <1>1, PTL DEF Spec

(* getConversion (db2i_charsetSupport.cc): if no two threads open at the   *)
(* same time, every descriptor it ever returned goes on converting what it *)
(* was asked for.                                                          *)
THEOREM GivenConvertsTheorem == ASSUME OneOpener, ~LookupsMayFail PROVE Spec => []GivenConverts
<1>1. IInv => GivenConverts BY DEF IInv, GivenSound, GivenConverts, Good
<1> QED BY OnlyOneOpens, <1>1, PTL

(* myconv_open (db2i_myconv.cc): under the same assumption a conversion    *)
(* there are tables for is refused only when all records are taken.        *)
THEOREM RefusedWhenFullTheorem ==
  ASSUME OneOpener, ~LookupsMayFail PROVE Spec => []RefusedWhenFull
<1>1. IInv => RefusedWhenFull BY DEF IInv, RefusedSound, RefusedWhenFull
<1> QED BY OnlyOneOpens, <1>1, PTL

(* The hash stays a map whose records convert what their keys say.         *)
THEOREM HashIsMapTheorem == ASSUME OneOpener, ~LookupsMayFail PROVE Spec => []HashIsMap
<1>1. IInv => HashIsMap BY DEF IInv, HashSound, HashIsMap, Good
<1> QED BY OnlyOneOpens, <1>1, PTL
=============================================================================
