-------------------------- MODULE LiveWindowProofs --------------------------
(***************************************************************************)
(* Proofs about LiveWindow for any calls, sizes and bounds.                *)
(*                                                                         *)
(* The inductive invariant IInv has three parts besides the types.         *)
(* OrderInv: how the rows in the window lie to the indices that were read. *)
(* KeepInv: what a wrap-up has digested at each of its statements.         *)
(* KnownInv: which readers still know the latest summary.                  *)
(***************************************************************************)
EXTENDS LiveWindow, TLAPS

(* Types.                                                                  *)
LEMMA NextType == TypeOK => NextIndices \subseteq Nat
  BY DEF TypeOK, NextIndices, Row

LEMMA HeadsType == \A H \in Heads(window) : H \subseteq window
  BY DEF Heads

LEMMA MessageType ==
    TypeOK => \A e \in Exchanges : /\ Message(e, "user", index[e]) \in Row
                                   /\ Message(e, "assistant", index[e] + 1) \in Row
  BY DEF TypeOK, Message, Row

LEMMA TypeInit == Init => TypeOK
<1>1. SUFFICES ASSUME Init PROVE TypeOK
  OBVIOUS
<1>2. /\ window \subseteq Row /\ stored \subseteq Row /\ summary \subseteq Row
      /\ archived \subseteq Row /\ overtaken \subseteq Row /\ unsaved \subseteq Row
      /\ outdated \subseteq Readers
      /\ hasSummary \in BOOLEAN /\ hasArchive \in BOOLEAN /\ ended \in BOOLEAN
      /\ deaths \in Nat /\ faults \in Nat
  BY <1>1 DEF Init
<1>3. /\ pc \in [Calls -> Labels] /\ index \in [Exchanges -> Nat]
      /\ earlier \in [Exchanges -> SUBSET Exchanges]
  BY <1>1 DEF Init, Labels
<1>4. /\ seen \in [Readers \cup WrapUps -> SUBSET Row]
      /\ known \in [Readers -> SUBSET Row]
      /\ digested \in [Keys -> SUBSET Row]
  BY <1>1 DEF Init
<1>5. key \in [WrapUps -> 1..(KeyCount + 1)]
  BY <1>1, LimitsType DEF Init
<1>6. QED
  BY <1>2, <1>3, <1>4, <1>5 DEF TypeOK

LEMMA TypeStep ==
    ASSUME TypeOK, [Next]_vars
    PROVE  TypeOK'
<1>1. ASSUME NEW e \in Exchanges, ReadIndex(e)
      PROVE  TypeOK'
  <2>1. index' \in [Exchanges -> Nat]
    BY <1>1, NextType DEF TypeOK, ReadIndex
  <2>2. earlier' \in [Exchanges -> SUBSET Exchanges]
    BY <1>1 DEF TypeOK, ReadIndex
  <2>3. faults' \in Nat
    BY <1>1 DEF TypeOK, ReadIndex, Lost
  <2>4. pc' \in [Calls -> Labels]
    BY <1>1 DEF TypeOK, ReadIndex, Goto, Labels
  <2>5. QED
    BY <1>1, <2>1, <2>2, <2>3, <2>4 DEF TypeOK, ReadIndex, tables, locals, history
<1>2. ASSUME NEW e \in Exchanges, AppendUser(e)
      PROVE  TypeOK'
  <2>1. window' \subseteq Row
    BY <1>2, MessageType DEF TypeOK, AppendUser, Insert, Inserted
  <2>2. stored' \subseteq Row
    BY <1>2, MessageType DEF TypeOK, AppendUser, Insert, Inserted
  <2>3. overtaken' \subseteq Row
    BY <1>2, MessageType DEF TypeOK, AppendUser, Insert, Inserted
  <2>4. faults' \in Nat
    BY <1>2 DEF TypeOK, AppendUser, Lost, Insert, Inserted
  <2>5. pc' \in [Calls -> Labels]
    BY <1>2 DEF TypeOK, AppendUser, Goto, Labels
  <2>6. QED
    BY <1>2, <2>1, <2>2, <2>3, <2>4, <2>5 DEF TypeOK, AppendUser, tables, locals, history, Insert, Inserted
<1>3. ASSUME NEW e \in Exchanges, AppendAssistant(e)
      PROVE  TypeOK'
  <2>1. window' \subseteq Row
    BY <1>3, MessageType DEF TypeOK, AppendAssistant, Insert, Inserted
  <2>2. stored' \subseteq Row
    BY <1>3, MessageType DEF TypeOK, AppendAssistant, Insert, Inserted
  <2>3. overtaken' \subseteq Row
    BY <1>3, MessageType DEF TypeOK, AppendAssistant, Insert, Inserted
  <2>4. faults' \in Nat
    BY <1>3 DEF TypeOK, AppendAssistant, Lost, Insert, Inserted
  <2>5. pc' \in [Calls -> Labels]
    BY <1>3 DEF TypeOK, AppendAssistant, Goto, Labels
  <2>6. QED
    BY <1>3, <2>1, <2>2, <2>3, <2>4, <2>5 DEF TypeOK, AppendAssistant, tables, locals, history, Insert, Inserted
<1>4. ASSUME NEW k \in Readers, ReadWindow(k)
      PROVE  TypeOK'
  <2>1. seen' \in [Readers \cup WrapUps -> SUBSET Row]
    BY <1>4, HeadsType DEF TypeOK, ReadWindow, Ends
  <2>2. faults' \in Nat
    BY <1>4 DEF TypeOK, ReadWindow, Lost
  <2>3. pc' \in [Calls -> Labels]
    BY <1>4 DEF TypeOK, ReadWindow, Goto, Labels
  <2>4. QED
    BY <1>4, <2>1, <2>2, <2>3 DEF TypeOK, ReadWindow, tables, locals, history
<1>5. ASSUME NEW k \in Readers, ReadSummary(k)
      PROVE  TypeOK'
  <2>1. known' \in [Readers -> SUBSET Row]
    BY <1>5 DEF TypeOK, ReadSummary
  <2>2. outdated' \subseteq Readers
    BY <1>5 DEF TypeOK, ReadSummary
  <2>3. faults' \in Nat
    BY <1>5 DEF TypeOK, ReadSummary, Lost
  <2>4. pc' \in [Calls -> Labels]
    BY <1>5 DEF TypeOK, ReadSummary, Goto, Labels
  <2>5. QED
    BY <1>5, <2>1, <2>2, <2>3, <2>4 DEF TypeOK, ReadSummary, tables, locals, history
<1>6. ASSUME NEW k \in Readers, Summarise(k)
      PROVE  TypeOK'
  <2>1. seen' \in [Readers \cup WrapUps -> SUBSET Row]
    BY <1>6 DEF TypeOK, Summarise, Ends
  <2>2. known' \in [Readers -> SUBSET Row]
    BY <1>6 DEF TypeOK, Summarise
  <2>3. pc' \in [Calls -> Labels]
    BY <1>6 DEF TypeOK, Summarise, Goto, Labels, Ends
  <2>4. QED
    BY <1>6, <2>1, <2>2, <2>3 DEF TypeOK, Summarise, tables, locals, history
<1>7. ASSUME NEW k \in Readers, LookUp(k)
      PROVE  TypeOK'
  <2>1. faults' \in Nat
    BY <1>7 DEF TypeOK, LookUp, Lost
  <2>2. pc' \in [Calls -> Labels]
    BY <1>7 DEF TypeOK, LookUp, Goto, Labels
  <2>3. QED
    BY <1>7, <2>1, <2>2 DEF TypeOK, LookUp, tables, locals, history
<1>8. ASSUME NEW k \in Readers, WriteSummary(k)
      PROVE  TypeOK'
  <2>1. hasSummary' \in BOOLEAN
    BY <1>8 DEF TypeOK, WriteSummary
  <2>2. summary' \subseteq Row
    BY <1>8 DEF TypeOK, WriteSummary, NewSummary
  <2>3. outdated' \subseteq Readers
    BY <1>8 DEF TypeOK, WriteSummary
  <2>4. faults' \in Nat
    BY <1>8 DEF TypeOK, WriteSummary, Lost
  <2>5. seen' \in [Readers \cup WrapUps -> SUBSET Row]
    BY <1>8 DEF TypeOK, WriteSummary, Ends
  <2>6. known' \in [Readers -> SUBSET Row]
    BY <1>8 DEF TypeOK, WriteSummary
  <2>7. pc' \in [Calls -> Labels]
    BY <1>8 DEF TypeOK, WriteSummary, Goto, Labels, Ends
  <2>8. QED
    BY <1>8, <2>1, <2>2, <2>3, <2>4, <2>5, <2>6, <2>7 DEF TypeOK, WriteSummary, tables, locals, history
<1>9. ASSUME NEW w \in WrapUps, ReadSession(w)
      PROVE  TypeOK'
  <2>1. seen' \in [Readers \cup WrapUps -> SUBSET Row]
    BY <1>9 DEF TypeOK, ReadSession, Ends
  <2>2. unsaved' \subseteq Row
    BY <1>9 DEF TypeOK, ReadSession
  <2>3. faults' \in Nat
    BY <1>9 DEF TypeOK, ReadSession, Lost
  <2>4. pc' \in [Calls -> Labels]
    BY <1>9 DEF TypeOK, ReadSession, Goto, Labels
  <2>5. QED
    BY <1>9, <2>1, <2>2, <2>3, <2>4 DEF TypeOK, ReadSession, tables, locals, history
<1>10. ASSUME NEW w \in WrapUps, ReadOldSummary(w)
      PROVE  TypeOK'
  <2>1. seen' \in [Readers \cup WrapUps -> SUBSET Row]
    BY <1>10 DEF TypeOK, ReadOldSummary, Ends
  <2>2. faults' \in Nat
    BY <1>10 DEF TypeOK, ReadOldSummary, Lost
  <2>3. pc' \in [Calls -> Labels]
    BY <1>10 DEF TypeOK, ReadOldSummary, Goto, Labels
  <2>4. QED
    BY <1>10, <2>1, <2>2, <2>3 DEF TypeOK, ReadOldSummary, tables, locals, history
<1>11. ASSUME NEW w \in WrapUps, Extract(w)
      PROVE  TypeOK'
  <2>1. seen' \in [Readers \cup WrapUps -> SUBSET Row]
    BY <1>11 DEF TypeOK, Extract, Ends
  <2>2. pc' \in [Calls -> Labels]
    BY <1>11 DEF TypeOK, Extract, Goto, Labels, Ends
  <2>3. QED
    BY <1>11, <2>1, <2>2 DEF TypeOK, Extract, tables, locals, history
<1>12. ASSUME NEW w \in WrapUps, WriteKey(w)
      PROVE  TypeOK'
  <2>1. digested' \in [Keys -> SUBSET Row]
    BY <1>12 DEF TypeOK, WriteKey
  <2>2. unsaved' \subseteq Row
    BY <1>12 DEF TypeOK, WriteKey
  <2>3. key' \in [WrapUps -> 1..(KeyCount + 1)]
    BY <1>12, LimitsType DEF TypeOK, WriteKey
  <2>4. faults' \in Nat
    BY <1>12 DEF TypeOK, WriteKey, Lost
  <2>5. pc' \in [Calls -> Labels]
    BY <1>12 DEF TypeOK, WriteKey, Goto, Labels
  <2>6. QED
    BY <1>12, <2>1, <2>2, <2>3, <2>4, <2>5 DEF TypeOK, WriteKey, tables, locals, history
<1>13. ASSUME NEW w \in WrapUps, InsertArchive(w)
      PROVE  TypeOK'
  <2>1. hasArchive' \in BOOLEAN
    BY <1>13 DEF TypeOK, InsertArchive
  <2>2. archived' \subseteq Row
    BY <1>13 DEF TypeOK, InsertArchive
  <2>3. unsaved' \subseteq Row
    BY <1>13 DEF TypeOK, InsertArchive
  <2>4. faults' \in Nat
    BY <1>13 DEF TypeOK, InsertArchive, Lost
  <2>5. pc' \in [Calls -> Labels]
    BY <1>13 DEF TypeOK, InsertArchive, Goto, Labels
  <2>6. QED
    BY <1>13, <2>1, <2>2, <2>3, <2>4, <2>5 DEF TypeOK, InsertArchive, tables, locals, history
<1>14. ASSUME NEW w \in WrapUps, EndSession(w)
      PROVE  TypeOK'
  <2>1. ended' \in BOOLEAN
    BY <1>14 DEF TypeOK, EndSession
  <2>2. faults' \in Nat
    BY <1>14 DEF TypeOK, EndSession, Lost
  <2>3. pc' \in [Calls -> Labels]
    BY <1>14 DEF TypeOK, EndSession, Goto, Labels
  <2>4. QED
    BY <1>14, <2>1, <2>2, <2>3 DEF TypeOK, EndSession, tables, locals, history
<1>15. ASSUME NEW w \in WrapUps, EmptyWindow(w)
      PROVE  TypeOK'
  <2>1. window' \subseteq Row
    BY <1>15 DEF TypeOK, EmptyWindow
  <2>2. faults' \in Nat
    BY <1>15 DEF TypeOK, EmptyWindow, Lost
  <2>3. seen' \in [Readers \cup WrapUps -> SUBSET Row]
    BY <1>15 DEF TypeOK, EmptyWindow, Ends
  <2>4. pc' \in [Calls -> Labels]
    BY <1>15 DEF TypeOK, EmptyWindow, Goto, Labels, Ends
  <2>5. QED
    BY <1>15, <2>1, <2>2, <2>3, <2>4 DEF TypeOK, EmptyWindow, tables, locals, history
<1>16. ASSUME NEW c \in Calls, Dies(c)
      PROVE  TypeOK'
  <2>1. deaths' \in Nat
    BY <1>16 DEF TypeOK, Dies
  <2>2. seen' \in [Readers \cup WrapUps -> SUBSET Row]
    BY <1>16 DEF TypeOK, Dies, Ends
  <2>3. known' \in [Readers -> SUBSET Row]
    BY <1>16 DEF TypeOK, Dies
  <2>4. pc' \in [Calls -> Labels]
    BY <1>16 DEF TypeOK, Dies, Goto, Labels, Ends
  <2>5. QED
    BY <1>16, <2>1, <2>2, <2>3, <2>4 DEF TypeOK, Dies, tables, locals, history
<1>17. CASE UNCHANGED vars
  BY <1>17 DEF TypeOK, vars, tables, locals, history
<1>18. QED
  BY <1>1, <1>2, <1>3, <1>4, <1>5, <1>6, <1>7, <1>8, <1>9, <1>10, <1>11, <1>12, <1>13, <1>14, <1>15, <1>16, <1>17 DEF Next, Append, GetContext, WrapUp

-----------------------------------------------------------------------------
(* The order of the messages.                                              *)
OrderInv ==
    /\ \A e \in Exchanges, f \in Exchanges : f \in earlier[e] => Over(f)
    /\ \A e \in Exchanges, r \in window :
          r.ex \in earlier[e] => r.order < index[e]
    /\ \A r \in window : index[r.ex] <= r.order /\ pc[r.ex] # "idle"

(* A window that does not grow, and labels that do not go back.            *)
LEMMA OrderFrame ==
    ASSUME TypeOK, OrderInv, window' \subseteq window, UNCHANGED <<index, earlier>>,
           \A e \in Exchanges : /\ Over(e) => Over(e)'
                                /\ pc[e] # "idle" => pc'[e] # "idle"
    PROVE  OrderInv'
<1>1. \A r \in window : r.ex \in Exchanges
  BY DEF TypeOK, Row
<1>2. QED
  BY <1>1 DEF OrderInv

(* A step of a call that has not ended.                                    *)
LEMMA OrderLabel ==
    ASSUME TypeOK, OrderInv, window' \subseteq window, UNCHANGED <<index, earlier>>,
           NEW c \in Calls, NEW l \in Labels, ~Over(c), l # "idle", Goto(c, l)
    PROVE  OrderInv'
<1>1. \A e \in Exchanges : /\ Over(e) => Over(e)'
                           /\ pc[e] # "idle" => pc'[e] # "idle"
  BY DEF Over, Goto, TypeOK, Calls
<1>2. QED
  BY <1>1, OrderFrame

(* A new message of an exchange that is not over.                          *)
LEMMA OrderAppend ==
    ASSUME TypeOK, OrderInv, NEW e \in Exchanges, NEW r \in Row,
           r.ex = e, index[e] <= r.order, pc[e] \in {"user", "assistant"},
           window' \subseteq window \cup {r}, UNCHANGED <<index, earlier>>,
           NEW l \in Labels, l # "idle", Goto(e, l)
    PROVE  OrderInv'
<1>1. \A f \in Exchanges : /\ Over(f) => Over(f)'
                           /\ pc[f] # "idle" => pc'[f] # "idle"
  BY DEF Over, Goto, TypeOK, Calls
<1>2. ~Over(e) /\ pc[e] # "idle"
  BY DEF Over
<1>3. \A s \in window : s.ex \in Exchanges
  BY DEF TypeOK, Row
<1>4. \A f \in Exchanges : e \notin earlier[f]
  BY <1>2 DEF OrderInv
<1>5. ASSUME NEW s \in window' PROVE index[s.ex] <= s.order /\ pc'[s.ex] # "idle"
  BY <1>1, <1>2, <1>3 DEF OrderInv
<1>6. ASSUME NEW f \in Exchanges, NEW s \in window', s.ex \in earlier[f]
      PROVE  s.order < index[f]
  BY <1>4, <1>6 DEF OrderInv
<1>7. QED
  BY <1>1, <1>5, <1>6 DEF OrderInv

LEMMA OrderStep ==
    ASSUME TypeOK, TypeOK', OrderInv, [Next]_vars
    PROVE  OrderInv'
<1> USE DEF tables, locals, history
<1>1. ASSUME NEW e \in Exchanges, ReadIndex(e)
      PROVE  OrderInv'
  <2>1. /\ window' = window /\ pc[e] = "idle" /\ pc' = [pc EXCEPT ![e] = "user"]
    BY <1>1 DEF ReadIndex, Starts, Goto
  <2>2. \A f \in Exchanges : /\ Over(f) => Over(f)'
                             /\ pc[f] # "idle" => pc'[f] # "idle"
    BY <2>1 DEF Over, TypeOK, Calls
  <2>3. CASE UNCHANGED <<index, earlier>>
    BY <2>1, <2>2, <2>3, OrderFrame
  <2>4. ASSUME NEW n \in NextIndices, index' = [index EXCEPT ![e] = n],
               earlier' = [earlier EXCEPT ![e] = {f \in Exchanges : Over(f)}]
        PROVE  OrderInv'
    <3>1. \A r \in window : r.order < n /\ r.ex \in Exchanges /\ r.ex # e
      BY <2>1 DEF NextIndices, OrderInv, TypeOK, Row
    <3>2. ASSUME NEW d \in Exchanges, NEW f \in Exchanges, f \in earlier'[d]
          PROVE  Over(f)'
      BY <2>2, <2>4, <3>2 DEF OrderInv, TypeOK
    <3>3. ASSUME NEW d \in Exchanges, NEW r \in window, r.ex \in earlier'[d]
          PROVE  r.order < index'[d]
      <4>1. CASE d = e
        BY <2>4, <3>1, <4>1 DEF TypeOK
      <4>2. CASE d # e
        BY <2>4, <3>3, <4>2 DEF OrderInv, TypeOK
      <4>3. QED
        BY <4>1, <4>2
    <3>4. ASSUME NEW r \in window
          PROVE  index'[r.ex] <= r.order /\ pc'[r.ex] # "idle"
      BY <2>2, <2>4, <3>1 DEF OrderInv, TypeOK
    <3>5. QED
      BY <2>1, <3>2, <3>3, <3>4 DEF OrderInv
  <2>5. QED
    BY <1>1, <2>3, <2>4 DEF ReadIndex
<1>2. ASSUME NEW e \in Exchanges, AppendUser(e)
      PROVE  OrderInv'
  <2>1. PICK l \in {"assistant", "done"} : Goto(e, l)
    BY <1>2 DEF AppendUser
  <2>2. window' \subseteq window \cup {Message(e, "user", index[e])}
    BY <1>2 DEF AppendUser, Insert, Inserted
  <2>3. /\ Message(e, "user", index[e]) \in Row
        /\ Message(e, "user", index[e]).ex = e
        /\ index[e] <= Message(e, "user", index[e]).order
    <3>1. Message(e, "user", index[e]) \in Row
      BY MessageType
    <3>2. /\ Message(e, "user", index[e]).ex = e
          /\ Message(e, "user", index[e]).order = index[e]
      BY DEF Message
    <3>3. index[e] \in Nat
      BY DEF TypeOK
    <3>4. QED
      BY <3>1, <3>2, <3>3
  <2>4. l \in Labels /\ l # "idle" /\ pc[e] = "user" /\ UNCHANGED <<index, earlier>>
    BY <1>2, <2>1 DEF Labels, AppendUser
  <2>5. QED
    BY <2>1, <2>2, <2>3, <2>4, OrderAppend
<1>3. ASSUME NEW e \in Exchanges, AppendAssistant(e)
      PROVE  OrderInv'
  <2>1. window' \subseteq window \cup {Message(e, "assistant", index[e] + 1)}
    BY <1>3 DEF AppendAssistant, Insert, Inserted
  <2>2. /\ Message(e, "assistant", index[e] + 1) \in Row
        /\ Message(e, "assistant", index[e] + 1).ex = e
        /\ index[e] <= Message(e, "assistant", index[e] + 1).order
    <3>1. Message(e, "assistant", index[e] + 1) \in Row
      BY MessageType
    <3>2. /\ Message(e, "assistant", index[e] + 1).ex = e
          /\ Message(e, "assistant", index[e] + 1).order = index[e] + 1
      BY DEF Message
    <3>3. index[e] \in Nat
      BY DEF TypeOK
    <3>4. QED
      BY <3>1, <3>2, <3>3
  <2>3. "done" \in Labels /\ pc[e] = "assistant" /\ Goto(e, "done")
        /\ UNCHANGED <<index, earlier>>
    BY <1>3 DEF Labels, AppendAssistant
  <2>4. QED
    BY <2>1, <2>2, <2>3, OrderAppend
<1>4. ASSUME NEW k \in Readers, GetContext(k)
      PROVE  OrderInv'
  <2>1. /\ UNCHANGED <<window, index, earlier>> /\ k \in Calls /\ ~Over(k)
        /\ \E l \in Labels : l # "idle" /\ Goto(k, l)
    BY <1>4 DEF GetContext, ReadWindow, ReadSummary, Summarise, LookUp, WriteSummary,
                Starts, Ends, Over, Labels, Calls
  <2>2. QED
    BY <2>1, OrderLabel
<1>5. ASSUME NEW w \in WrapUps, ReadSession(w) \/ WrapUp(w)
      PROVE  OrderInv'
  <2>1. /\ window' \subseteq window /\ UNCHANGED <<index, earlier>>
        /\ w \in Calls /\ ~Over(w)
        /\ UNCHANGED pc \/ \E l \in Labels : l # "idle" /\ Goto(w, l)
    BY <1>5 DEF ReadSession, WrapUp, ReadOldSummary, Extract, WriteKey, InsertArchive,
                EndSession, EmptyWindow, Starts, Ends, Over, Labels, Calls
  <2>2. CASE UNCHANGED pc
    BY <2>1, <2>2, OrderFrame DEF Over
  <2>3. QED
    BY <2>1, <2>2, OrderLabel
<1>6. ASSUME NEW c \in Calls, Dies(c)
      PROVE  OrderInv'
  <2>1. /\ UNCHANGED <<window, index, earlier>> /\ ~Over(c)
        /\ "dead" \in Labels /\ Goto(c, "dead")
    BY <1>6 DEF Dies, Ends, Labels
  <2>2. QED
    BY <2>1, OrderLabel
<1>7. CASE UNCHANGED vars
  BY <1>7, OrderFrame DEF vars, Over
<1>8. QED
  BY <1>1, <1>2, <1>3, <1>4, <1>5, <1>6, <1>7 DEF Next, Append

-----------------------------------------------------------------------------
(* What a wrap-up has read, digested and written.                          *)
Read(w) == window \subseteq seen[w] \cup overtaken \cup unsaved
Digests(w) == \A n \in Keys : n < key[w] => seen[w] \subseteq digested[n] \cup unsaved
Late == {"archive", "end", "empty"}
WrapInv(w) ==
    /\ pc[w] \in WrapLabels => Read(w) /\ Digests(w)
    /\ pc[w] \in {"idle", "readOld", "extract"} => key[w] = 1
    /\ pc[w] \in Late => key[w] = KeyCount + 1
    /\ faults = 0 /\ pc[w] \in {"end", "empty"} => hasArchive
    /\ faults = 0 /\ pc[w] = "empty" => ended
KeepInv == EmptiedWasKept /\ \A w \in WrapUps : WrapInv(w)

(* What has been kept is never taken back.                                 *)
Grows == /\ overtaken \subseteq overtaken' /\ unsaved \subseteq unsaved'
         /\ \A n \in Keys : digested[n] \subseteq digested'[n]
         /\ faults' = 0 => faults = 0
         /\ hasArchive => hasArchive'
         /\ ended => ended'

LEMMA KeepsGrowing ==
    ASSUME TypeOK, [Next]_vars
    PROVE  Grows
<1> USE DEF tables, locals, history
<1>1. ASSUME NEW e \in Exchanges, ReadIndex(e) \/ Append(e)
      PROVE  Grows
  BY <1>1 DEF Grows, ReadIndex, Append, AppendUser, AppendAssistant, Insert, Inserted,
              Lost, TypeOK
<1>2. ASSUME NEW k \in Readers, GetContext(k)
      PROVE  Grows
  BY <1>2 DEF Grows, GetContext, ReadWindow, ReadSummary, Summarise, LookUp,
              WriteSummary, Lost, TypeOK
<1>3. ASSUME NEW w \in WrapUps, WriteKey(w)
      PROVE  Grows
  <2>1. \A n \in Keys : digested[n] \subseteq digested'[n]
    BY <1>3 DEF WriteKey, TypeOK
  <2>2. QED
    BY <1>3, <2>1 DEF Grows, WriteKey, Lost, TypeOK
<1>4. ASSUME NEW w \in WrapUps, ReadSession(w) \/ WrapUp(w), ~WriteKey(w)
      PROVE  Grows
  BY <1>4 DEF Grows, ReadSession, WrapUp, ReadOldSummary, Extract, InsertArchive,
              EndSession, EmptyWindow, Lost, TypeOK
<1>5. ASSUME NEW c \in Calls, Dies(c)
      PROVE  Grows
  BY <1>5 DEF Grows, Dies
<1>6. CASE UNCHANGED vars
  BY <1>6 DEF Grows, vars
<1>7. QED
  BY <1>1, <1>2, <1>3, <1>4, <1>5, <1>6 DEF Next

(* A wrap-up that does not move, and a window into which only what         *)
(* overtakes it comes.                                                     *)
LEMMA WrapFrame ==
    ASSUME Grows, NEW w \in WrapUps, WrapInv(w), pc'[w] = pc[w],
           UNCHANGED key, seen'[w] = seen[w],
           pc[w] \in WrapLabels => window' \subseteq window \cup overtaken'
    PROVE  WrapInv(w)'
<1>1. pc[w] \in WrapLabels => Read(w)'
  BY DEF WrapInv, Read, Grows
<1>2. pc[w] \in WrapLabels => Digests(w)'
  BY DEF WrapInv, Digests, Grows
<1>3. QED
  BY <1>1, <1>2 DEF WrapInv, Grows

(* Steps that leave window and stored alone.                               *)
LEMMA EmptiedFrame ==
    ASSUME Grows, EmptiedWasKept, UNCHANGED <<window, stored>>
    PROVE  EmptiedWasKept'
  BY DEF Grows, EmptiedWasKept

(* A call that is no wrap-up and inserts nothing.                          *)
LEMMA KeepElsewhere ==
    ASSUME TypeOK, Grows, KeepInv, NEW c, c \notin WrapUps,
           NEW l, UNCHANGED <<window, stored, key>>, Goto(c, l),
           \A w \in WrapUps : seen'[w] = seen[w]
    PROVE  KeepInv'
<1>1. \A w \in WrapUps : pc'[w] = pc[w]
  BY DEF Goto, TypeOK, Calls
<1>2. \A w \in WrapUps : WrapInv(w)'
  BY <1>1, WrapFrame DEF KeepInv
<1>3. QED
  BY <1>2, EmptiedFrame DEF KeepInv

(* A new message: every wrap-up under way is overtaken.                    *)
LEMMA KeepInsert ==
    ASSUME TypeOK, Grows, KeepInv, NEW e \in Exchanges, NEW r, NEW l,
           Insert(r), UNCHANGED <<seen, key>>, Goto(e, l)
    PROVE  KeepInv'
<1>1. \A w \in WrapUps : pc'[w] = pc[w]
  BY KindsDisjoint DEF Goto, TypeOK, Calls
<1>2. CASE Inserted(r)
  <2>1. ASSUME NEW w \in WrapUps PROVE WrapInv(w)'
    <3>1. pc[w] \in WrapLabels => window' \subseteq window \cup overtaken'
      BY <1>2 DEF Inserted, Wrapping
    <3>2. QED
      BY <1>1, <3>1, WrapFrame DEF KeepInv
  <2>2. EmptiedWasKept'
    BY <1>2 DEF Inserted, KeepInv, EmptiedWasKept, Grows
  <2>3. QED
    BY <2>1, <2>2 DEF KeepInv
<1>3. CASE UNCHANGED <<window, stored>>
  <2>1. \A w \in WrapUps : WrapInv(w)'
    BY <1>1, <1>3, WrapFrame DEF KeepInv
  <2>2. QED
    BY <1>3, <2>1, EmptiedFrame DEF KeepInv
<1>4. QED
  BY <1>2, <1>3 DEF Insert

(* The wrap-ups other than the one that moves.                             *)
LEMMA OtherWrapUps ==
    ASSUME TypeOK, Grows, KeepInv, NEW w \in WrapUps, NEW v \in WrapUps, v # w,
           window' \subseteq window,
           \E l : pc' = [pc EXCEPT ![w] = l],
           \E S : seen' = [seen EXCEPT ![w] = S],
           \E n : key' = [key EXCEPT ![w] = n]
    PROVE  WrapInv(v)'
<1>1. pc'[v] = pc[v] /\ seen'[v] = seen[v] /\ key'[v] = key[v]
  BY DEF TypeOK, Calls
<1>2. pc[v] \in WrapLabels => Read(v)'
  BY <1>1 DEF KeepInv, WrapInv, Read, Grows
<1>3. pc[v] \in WrapLabels => Digests(v)'
  BY <1>1 DEF KeepInv, WrapInv, Digests, Grows
<1>4. QED
  BY <1>1, <1>2, <1>3 DEF KeepInv, WrapInv, Grows

LEMMA SameFunction ==
    ASSUME NEW S, NEW f, NEW x, \E R : f \in [S -> R]
    PROVE  \E y : f = [f EXCEPT ![x] = y]
<1>1. f = [f EXCEPT ![x] = f[x]]
  OBVIOUS
<1>2. QED
  BY <1>1

(* The steps of a wrap-up.                                                 *)
LEMMA KeepWrapUp ==
    ASSUME TypeOK, TypeOK', Grows, KeepInv, NEW w \in WrapUps,
           ReadSession(w) \/ WrapUp(w)
    PROVE  KeepInv'
<1> USE DEF tables, locals, history
<1>1. window' \subseteq window /\ UNCHANGED stored
  BY DEF ReadSession, WrapUp, ReadOldSummary, Extract, WriteKey, InsertArchive,
         EndSession, EmptyWindow
<1>2. \E l : pc' = [pc EXCEPT ![w] = l]
  <2>1. (\E l : Goto(w, l)) \/ UNCHANGED pc
    BY DEF ReadSession, WrapUp, ReadOldSummary, Extract, WriteKey, InsertArchive,
           EndSession, EmptyWindow, Ends
  <2>2. \E l : pc = [pc EXCEPT ![w] = l]
    BY SameFunction DEF TypeOK
  <2>3. QED
    BY <2>1, <2>2 DEF Goto
<1>3. \E S : seen' = [seen EXCEPT ![w] = S]
  <2>1. (\E S : seen' = [seen EXCEPT ![w] = S]) \/ UNCHANGED seen
    BY DEF ReadSession, WrapUp, ReadOldSummary, Extract, WriteKey, InsertArchive,
           EndSession, EmptyWindow, Ends
  <2>2. QED
    BY <2>1, SameFunction DEF TypeOK
<1>4. \E n : key' = [key EXCEPT ![w] = n]
  <2>1. (\E n : key' = [key EXCEPT ![w] = n]) \/ UNCHANGED key
    BY DEF ReadSession, WrapUp, ReadOldSummary, Extract, WriteKey, InsertArchive,
           EndSession, EmptyWindow, Ends
  <2>2. QED
    BY <2>1, SameFunction DEF TypeOK
<1>5. \A v \in WrapUps : v # w => WrapInv(v)'
  BY <1>1, <1>2, <1>3, <1>4, OtherWrapUps
<1>6. w \in Calls
  BY DEF Calls
<1>7. key[w] \in 1..(KeyCount + 1) /\ KeyCount \in Nat /\ WrapInv(w)
  BY LimitsType DEF TypeOK, KeepInv
<1>8. ASSUME window' = window, WrapInv(w)' PROVE KeepInv'
  BY <1>1, <1>5, <1>8, EmptiedFrame DEF KeepInv
<1>9. CASE ReadSession(w)
  <2>1. pc[w] = "idle" /\ pc'[w] = "readOld" /\ UNCHANGED <<window, key>>
    BY <1>6, <1>9 DEF ReadSession, Starts, Goto, TypeOK
  <2>2. Read(w)'
    BY <1>9, <2>1 DEF ReadSession, Read, TypeOK
  <2>3. key[w] = 1
    BY <1>7, <2>1 DEF WrapInv
  <2>4. WrapInv(w)'
    BY <2>1, <2>2, <2>3 DEF WrapInv, Digests, Keys, Late
  <2>5. QED
    BY <1>8, <2>1, <2>4
<1>10. CASE ReadOldSummary(w)
  <2>1. pc[w] = "readOld" /\ pc'[w] = "extract" /\ UNCHANGED <<window, key>>
    BY <1>6, <1>10 DEF ReadOldSummary, Goto, TypeOK
  <2>2. Read(w) /\ key[w] = 1
    BY <1>7, <2>1 DEF WrapInv, WrapLabels
  <2>3. seen[w] \subseteq seen'[w]
    BY <1>10 DEF ReadOldSummary, TypeOK
  <2>4. WrapInv(w)'
    BY <2>1, <2>2, <2>3 DEF WrapInv, Read, Digests, Keys, Grows, Late
  <2>5. QED
    BY <1>8, <2>1, <2>4
<1>11. CASE Extract(w)
  <2>1. /\ pc[w] = "extract" /\ UNCHANGED <<window, key>>
        /\ pc'[w] = "done" \/ (pc'[w] = "write" /\ UNCHANGED seen)
    BY <1>6, <1>11 DEF Extract, Ends, Goto, TypeOK
  <2>2. Read(w) /\ key[w] = 1
    BY <1>7, <2>1 DEF WrapInv, WrapLabels
  <2>3. WrapInv(w)'
    BY <2>1, <2>2 DEF WrapInv, WrapLabels, Read, Digests, Keys, Grows, Late
  <2>4. QED
    BY <1>8, <2>1, <2>3
<1>12. CASE WriteKey(w) /\ key[w] > KeyCount
  <2>1. pc[w] = "write" /\ pc'[w] = "archive" /\ UNCHANGED <<window, seen, key>>
    BY <1>6, <1>12 DEF WriteKey, Goto, TypeOK
  <2>2. Read(w)' /\ Digests(w)'
    BY <1>7, <2>1 DEF WrapInv, WrapLabels, Read, Digests, Grows
  <2>3. key'[w] = KeyCount + 1
    BY <1>7, <1>12, <2>1
  <2>4. WrapInv(w)'
    BY <2>1, <2>2, <2>3 DEF WrapInv, Late
  <2>5. QED
    BY <1>8, <2>1, <2>4
<1>13. CASE WriteKey(w) /\ ~(key[w] > KeyCount)
  <2>1. pc[w] = "write" /\ UNCHANGED <<window, seen, pc>>
        /\ key' = [key EXCEPT ![w] = @ + 1]
    BY <1>13 DEF WriteKey
  <2>2. Read(w)'
    BY <1>7, <2>1 DEF WrapInv, WrapLabels, Read, Grows
  <2>3. seen[w] \subseteq digested'[key[w]] \cup unsaved'
    <3>1. key[w] \in Keys
      BY <1>7, <1>13 DEF Keys
    <3>2. CASE digested' = [digested EXCEPT ![key[w]] = @ \cup seen[w]]
      BY <3>1, <3>2 DEF TypeOK
    <3>3. CASE unsaved' = unsaved \cup seen[w]
      BY <3>3
    <3>4. QED
      BY <1>13, <3>2, <3>3 DEF WriteKey
  <2>4. key'[w] = key[w] + 1
    BY <2>1 DEF TypeOK
  <2>5. Digests(w)'
    <3>1. SUFFICES ASSUME NEW n \in Keys, n < key[w] + 1
                   PROVE  seen[w] \subseteq digested'[n] \cup unsaved'
      BY <2>1, <2>4 DEF Digests
    <3>2. CASE n < key[w]
      BY <1>7, <2>1, <3>2 DEF WrapInv, WrapLabels, Digests, Grows
    <3>3. CASE n = key[w]
      BY <2>3, <3>3
    <3>4. QED
      BY <1>7, <3>1, <3>2, <3>3 DEF Keys
  <2>6. WrapInv(w)'
    BY <2>1, <2>2, <2>5 DEF WrapInv, Late
  <2>7. QED
    BY <1>8, <2>1, <2>6
<1>14. CASE InsertArchive(w)
  <2>1. pc[w] = "archive" /\ pc'[w] = "end" /\ UNCHANGED <<window, seen, key>>
    BY <1>6, <1>14 DEF InsertArchive, Goto, TypeOK
  <2>2. Read(w)' /\ Digests(w)' /\ key'[w] = KeyCount + 1
    BY <1>7, <2>1 DEF WrapInv, WrapLabels, Read, Digests, Grows, Late
  <2>3. hasArchive' \/ faults' # 0
    BY <1>14 DEF InsertArchive, Lost, TypeOK
  <2>4. WrapInv(w)'
    BY <2>1, <2>2, <2>3 DEF WrapInv, Late
  <2>5. QED
    BY <1>8, <2>1, <2>4
<1>15. CASE EndSession(w)
  <2>1. pc[w] = "end" /\ pc'[w] = "empty" /\ UNCHANGED <<window, seen, key>>
    BY <1>6, <1>15 DEF EndSession, Goto, TypeOK
  <2>2. Read(w)' /\ Digests(w)' /\ key'[w] = KeyCount + 1
    BY <1>7, <2>1 DEF WrapInv, WrapLabels, Read, Digests, Grows, Late
  <2>3. (faults' = 0 => hasArchive') /\ (ended' \/ faults' # 0)
    BY <1>7, <1>15, <2>1 DEF EndSession, Lost, TypeOK, WrapInv, Grows
  <2>4. WrapInv(w)'
    BY <2>1, <2>2, <2>3 DEF WrapInv, Late
  <2>5. QED
    BY <1>8, <2>1, <2>4
<1>16. CASE EmptyWindow(w)
  <2>1. pc[w] = "empty" /\ pc'[w] = "done"
    BY <1>6, <1>16 DEF EmptyWindow, Ends, Goto, TypeOK
  <2>2. WrapInv(w)'
    BY <2>1 DEF WrapInv, WrapLabels, Late
  <2>3. CASE UNCHANGED window
    BY <1>8, <2>2, <2>3
  <2>4. CASE window' = {}
    <3>1. UNCHANGED <<overtaken, unsaved, digested, ended, hasArchive>>
      BY <1>16 DEF EmptyWindow
    <3>2. Read(w) /\ Digests(w) /\ key[w] = KeyCount + 1
      BY <1>7, <2>1 DEF WrapInv, WrapLabels, Late
    <3>3. \A n \in Keys : seen[w] \subseteq digested[n] \cup unsaved
      BY <1>7, <3>2 DEF Digests, Keys
    <3>4. \A r \in window : r \in overtaken \cup unsaved
                            \/ \A n \in Keys : r \in digested[n]
      BY <3>2, <3>3 DEF Read
    <3>5. \A r \in stored : r \in overtaken \cup unsaved
                            \/ \A n \in Keys : r \in digested[n]
      BY <3>4 DEF KeepInv, EmptiedWasKept
    <3>6. faults' = 0 => ended /\ hasArchive
      BY <1>7, <2>1 DEF WrapInv, Grows
    <3>7. EmptiedWasKept'
      BY <1>1, <3>1, <3>5, <3>6 DEF EmptiedWasKept
    <3>8. QED
      BY <1>5, <2>2, <3>7 DEF KeepInv
  <2>5. QED
    BY <1>16, <2>3, <2>4 DEF EmptyWindow
<1>17. QED
  BY <1>9, <1>10, <1>11, <1>12, <1>13, <1>14, <1>15, <1>16 DEF WrapUp

LEMMA KeepStep ==
    ASSUME TypeOK, TypeOK', KeepInv, [Next]_vars
    PROVE  KeepInv'
<1> USE DEF tables, locals, history
<1>1. Grows
  BY KeepsGrowing
<1>2. ASSUME NEW e \in Exchanges, ReadIndex(e)
      PROVE  KeepInv'
  <2>1. e \notin WrapUps /\ UNCHANGED <<window, stored, key, seen>> /\ Goto(e, "user")
    BY <1>2, KindsDisjoint DEF ReadIndex
  <2>2. QED
    BY <1>1, <2>1, KeepElsewhere
<1>3. ASSUME NEW e \in Exchanges, AppendUser(e)
      PROVE  KeepInv'
  <2>1. /\ Insert(Message(e, "user", index[e])) /\ UNCHANGED <<seen, key>>
        /\ \E l : Goto(e, l)
    BY <1>3 DEF AppendUser
  <2>2. QED
    BY <1>1, <2>1, KeepInsert
<1>4. ASSUME NEW e \in Exchanges, AppendAssistant(e)
      PROVE  KeepInv'
  <2>1. /\ Insert(Message(e, "assistant", index[e] + 1)) /\ UNCHANGED <<seen, key>>
        /\ Goto(e, "done")
    BY <1>4 DEF AppendAssistant
  <2>2. QED
    BY <1>1, <2>1, KeepInsert
<1>5. ASSUME NEW k \in Readers, GetContext(k)
      PROVE  KeepInv'
  <2>1. k \notin WrapUps
    BY KindsDisjoint
  <2>2. UNCHANGED <<window, stored, key>> /\ \E l : Goto(k, l)
    BY <1>5 DEF GetContext, ReadWindow, ReadSummary, Summarise, LookUp, WriteSummary, Ends
  <2>3. (\E S : seen' = [seen EXCEPT ![k] = S]) \/ UNCHANGED seen
    BY <1>5 DEF GetContext, ReadWindow, ReadSummary, Summarise, LookUp, WriteSummary, Ends
  <2>4. \A w \in WrapUps : seen'[w] = seen[w]
    BY <2>1, <2>3 DEF TypeOK
  <2>5. QED
    BY <1>1, <2>1, <2>2, <2>4, KeepElsewhere
<1>6. ASSUME NEW w \in WrapUps, ReadSession(w) \/ WrapUp(w)
      PROVE  KeepInv'
  BY <1>1, <1>6, KeepWrapUp
<1>7. ASSUME NEW c \in Calls, Dies(c)
      PROVE  KeepInv'
  <2>1. /\ UNCHANGED <<window, stored, key>> /\ Goto(c, "dead")
        /\ (\E S : seen' = [seen EXCEPT ![c] = S]) \/ UNCHANGED seen
    BY <1>7 DEF Dies, Ends
  <2>2. ASSUME NEW w \in WrapUps PROVE WrapInv(w)'
    <3>1. CASE c = w
      <4>1. pc'[w] = "dead"
        BY <2>1, <3>1 DEF Goto, TypeOK
      <4>2. QED
        BY <4>1 DEF WrapInv, WrapLabels, Late
    <3>2. CASE c # w
      <4>1. pc'[w] = pc[w] /\ seen'[w] = seen[w]
        BY <2>1, <3>2 DEF Goto, TypeOK, Calls
      <4>2. QED
        BY <1>1, <2>1, <4>1, WrapFrame DEF KeepInv
    <3>3. QED
      BY <3>1, <3>2
  <2>3. QED
    BY <1>1, <2>1, <2>2, EmptiedFrame DEF KeepInv
<1>8. CASE UNCHANGED vars
  <2>1. \A w \in WrapUps : WrapInv(w)'
    BY <1>1, <1>8, WrapFrame DEF KeepInv, vars
  <2>2. QED
    BY <1>1, <1>8, <2>1, EmptiedFrame DEF KeepInv, vars
<1>9. QED
  BY <1>2, <1>3, <1>4, <1>5, <1>6, <1>7, <1>8 DEF Next, Append

-----------------------------------------------------------------------------
(* Readers that know the latest summary.                                   *)
KnownInv ==
    \A k \in Readers \ outdated :
        pc[k] \in {"readWindow", "summarise", "lookUp", "update", "insert"}
            => summary \subseteq known[k]

(* Whoever writes a summary that lacks what the last one had is outdated.  *)
LEMMA WriteHandsOn ==
    ASSUME TypeOK, KnownInv, NEW k \in Readers, WriteSummary(k)
    PROVE  summary \subseteq summary' \/ (k \in outdated /\ pc'[k] # pc[k])
<1>1. pc[k] \in {"update", "insert"} /\ pc'[k] = "done"
  BY DEF WriteSummary, Ends, Goto, TypeOK, Calls
<1>2. k \notin outdated => summary \subseteq known[k]
  BY <1>1 DEF KnownInv
<1>3. summary' = summary \/ summary' = known[k] \cup seen[k]
  BY DEF WriteSummary, NewSummary
<1>4. QED
  BY <1>1, <1>2, <1>3

LEMMA KnownStep ==
    ASSUME TypeOK, TypeOK', KnownInv, [Next]_vars
    PROVE  KnownInv'
<1> USE DEF tables, locals, history
<1>1. ASSUME NEW c \in Calls, NEW l, Goto(c, l), UNCHANGED <<summary, known, outdated>>,
             l \in {"readWindow", "summarise", "lookUp", "update", "insert"} =>
             pc[c] \in {"readWindow", "summarise", "lookUp", "update", "insert"}
      PROVE  KnownInv'
  BY <1>1 DEF KnownInv, Goto, TypeOK
<1>2. ASSUME NEW e \in Exchanges, ReadIndex(e) \/ Append(e)
      PROVE  KnownInv'
  <2>1. /\ UNCHANGED <<summary, known, outdated>> /\ e \in Calls
        /\ \E l \in {"user", "assistant", "done"} : Goto(e, l)
    BY <1>2 DEF ReadIndex, Append, AppendUser, AppendAssistant, Calls
  <2>2. QED
    BY <1>1, <2>1
<1>3. ASSUME NEW k \in Readers, ReadWindow(k)
      PROVE  KnownInv'
  <2>1. /\ UNCHANGED <<summary, known, outdated>> /\ k \in Calls
        /\ \/ Goto(k, "readSummary")
           \/ pc[k] = "readWindow" /\ Goto(k, "summarise")
    BY <1>3 DEF ReadWindow, Calls
  <2>2. QED
    BY <1>1, <2>1
<1>4. ASSUME NEW k \in Readers, ReadSummary(k)
      PROVE  KnownInv'
  <2>1. \/ known' = [known EXCEPT ![k] = summary] /\ outdated' = outdated \ {k}
        \/ UNCHANGED known /\ outdated' = outdated \cup {k}
    BY <1>4 DEF ReadSummary
  <2>2. summary' = summary /\ \E l : Goto(k, l)
    BY <1>4 DEF ReadSummary
  <2>3. k \notin outdated' => summary' \subseteq known'[k]
    BY <2>1, <2>2 DEF TypeOK
  <2>4. \A j \in Readers \ {k} : /\ pc'[j] = pc[j] /\ known'[j] = known[j]
                                 /\ j \in outdated' <=> j \in outdated
    BY <2>1, <2>2 DEF Goto, TypeOK, Calls
  <2>5. QED
    BY <2>2, <2>3, <2>4 DEF KnownInv
<1>5. ASSUME NEW k \in Readers, Summarise(k)
      PROVE  KnownInv'
  <2>1. /\ UNCHANGED <<summary, outdated>> /\ pc[k] = "summarise"
        /\ pc'[k] = "done" \/ UNCHANGED known
        /\ \A j \in Readers \ {k} : pc'[j] = pc[j] /\ known'[j] = known[j]
    BY <1>5 DEF Summarise, Ends, Goto, TypeOK, Calls
  <2>2. QED
    BY <2>1 DEF KnownInv
<1>6. ASSUME NEW k \in Readers, LookUp(k)
      PROVE  KnownInv'
  <2>1. /\ UNCHANGED <<summary, known, outdated>> /\ k \in Calls
        /\ pc[k] = "lookUp" /\ \E l : Goto(k, l)
    BY <1>6 DEF LookUp, Calls
  <2>2. QED
    BY <1>1, <2>1
<1>7. ASSUME NEW k \in Readers, WriteSummary(k)
      PROVE  KnownInv'
  <2>1. /\ pc'[k] = "done"
        /\ \A j \in Readers \ {k} : pc'[j] = pc[j] /\ known'[j] = known[j]
    BY <1>7 DEF WriteSummary, Ends, Goto, TypeOK, Calls
  <2>2. \/ UNCHANGED <<summary, outdated>>
        \/ \A j \in Readers \ {k} : ~Over(j) => j \in outdated'
    BY <1>7 DEF WriteSummary
  <2>3. QED
    BY <2>1, <2>2 DEF KnownInv, Over
<1>8. ASSUME NEW w \in WrapUps, ReadSession(w) \/ WrapUp(w)
      PROVE  KnownInv'
  <2>1. UNCHANGED <<summary, known, outdated>> /\ w \notin Readers
    BY <1>8, KindsDisjoint
       DEF ReadSession, WrapUp, ReadOldSummary, Extract, WriteKey, InsertArchive,
           EndSession, EmptyWindow
  <2>2. UNCHANGED pc \/ \E l : Goto(w, l)
    BY <1>8 DEF ReadSession, WrapUp, ReadOldSummary, Extract, WriteKey, InsertArchive,
                EndSession, EmptyWindow, Ends
  <2>3. \A k \in Readers : pc'[k] = pc[k]
    BY <2>1, <2>2 DEF Goto, TypeOK, Calls
  <2>4. QED
    BY <2>1, <2>3 DEF KnownInv
<1>9. ASSUME NEW c \in Calls, Dies(c)
      PROVE  KnownInv'
  <2>1. /\ UNCHANGED <<summary, outdated>>
        /\ \A j \in Readers : pc'[j] = "dead" \/ (pc'[j] = pc[j] /\ known'[j] = known[j])
    BY <1>9 DEF Dies, Ends, Goto, TypeOK, Calls
  <2>2. QED
    BY <2>1 DEF KnownInv
<1>10. CASE UNCHANGED vars
  BY <1>10 DEF KnownInv, vars
<1>11. QED
  BY <1>2, <1>3, <1>4, <1>5, <1>6, <1>7, <1>8, <1>9, <1>10 DEF Next, GetContext

LEMMA HandedOnStep ==
    ASSUME TypeOK, KnownInv, [Next]_vars
    PROVE  summary \subseteq summary' \/ \E k \in outdated : pc[k] # pc'[k]
<1> USE DEF tables, locals, history
<1>1. ASSUME NEW k \in Readers, WriteSummary(k)
      PROVE  summary \subseteq summary' \/ \E j \in outdated : pc[j] # pc'[j]
  BY <1>1, WriteHandsOn
<1>2. ASSUME ~\E k \in Readers : WriteSummary(k)
      PROVE  summary' = summary
  BY <1>2 DEF Next, ReadIndex, Append, AppendUser, AppendAssistant, GetContext,
              ReadWindow, ReadSummary, Summarise, LookUp, ReadSession, WrapUp,
              ReadOldSummary, Extract, WriteKey, InsertArchive, EndSession,
              EmptyWindow, Dies, vars
<1>3. QED
  BY <1>1, <1>2

-----------------------------------------------------------------------------
IInv == TypeOK /\ OrderInv /\ KeepInv /\ KnownInv

LEMMA InvInit == Init => IInv
<1>1. SUFFICES ASSUME Init PROVE IInv
  OBVIOUS
<1>2. TypeOK
  BY <1>1, TypeInit
<1>3. OrderInv
  BY <1>1 DEF Init, OrderInv
<1>4. KeepInv
  BY <1>1 DEF Init, KeepInv, EmptiedWasKept, WrapInv, WrapLabels, Late, Calls
<1>5. KnownInv
  BY <1>1 DEF Init, KnownInv
<1>6. QED
  BY <1>2, <1>3, <1>4, <1>5 DEF IInv

LEMMA InvStep == IInv /\ [Next]_vars => IInv'
<1>1. SUFFICES ASSUME IInv, [Next]_vars PROVE IInv'
  OBVIOUS
<1>2. TypeOK'
  BY <1>1, TypeStep DEF IInv
<1>3. QED
  BY <1>1, <1>2, OrderStep, KeepStep, KnownStep DEF IInv

LEMMA Invariance == Spec => []IInv
  BY InvInit, InvStep, PTL DEF Spec

(* The tables and what the calls have read keep their types.               *)
THEOREM TypesKept == Spec => []TypeOK
<1>1. IInv => TypeOK
  BY DEF IInv
<1>2. QED
  BY <1>1, Invariance, PTL

(* An exchange that was over when another read its index comes first in    *)
(* every window, however many are appended at the same time.               *)
THEOREM OrderOfMessages == Spec => []MessagesInOrder
<1>1. IInv => MessagesInOrder
  <2>1. SUFFICES ASSUME IInv, NEW r \in window, NEW s \in window,
                        r.ex \in earlier[s.ex]
                 PROVE  r.order < s.order
    BY DEF MessagesInOrder
  <2>2. s.ex \in Exchanges /\ r.order \in Nat /\ s.order \in Nat
        /\ index[s.ex] \in Nat
    BY <2>1 DEF IInv, TypeOK, Row
  <2>3. r.order < index[s.ex] /\ index[s.ex] <= s.order
    BY <2>1, <2>2 DEF IInv, OrderInv
  <2>4. QED
    BY <2>2, <2>3
<1>2. QED
  BY <1>1, Invariance, PTL

(* No wrap-up, wherever it stops and whoever joins it, empties the window  *)
(* of what the long-term memory has not been written from.                 *)
THEOREM EmptiedAfterKept == Spec => []EmptiedWasKept
<1>1. IInv => EmptiedWasKept
  BY DEF IInv, KeepInv
<1>2. QED
  BY <1>1, Invariance, PTL

(* A summary loses what the last one was made from only where get_contexts *)
(* overlap or the old one could not be read.                               *)
THEOREM SummariesHandOn == Spec => SummaryHandedOn
<1>1. IInv /\ [Next]_vars =>
          [summary \subseteq summary' \/ \E k \in outdated : pc[k] # pc'[k]]_vars
  BY HandedOnStep DEF IInv
<1>2. QED
  BY <1>1, Invariance, PTL DEF Spec, SummaryHandedOn

-----------------------------------------------------------------------------
(* What is left of a wrap-up that has extracted its facts.                 *)
Keeping(w) == pc[w] \in {"write", "archive", "end", "empty"}

GoesOn(w) ==
    /\ WrapLeft(w)' < WrapLeft(w) /\ WrapLeft(w)' <= WrapLeft(w)
    /\ pc'[w] = "done" => window' = {} \/ faults' > faults

LEMMA OwnStepGoesOn ==
    ASSUME TypeOK, NEW w \in WrapUps, Keeping(w), WrapUp(w) \/ Dies(w)
    PROVE  GoesOn(w)
<1>t. /\ pc \in [Calls -> Labels] /\ key \in [WrapUps -> 1..(KeyCount + 1)]
      /\ KeyCount \in Nat /\ key[w] \in 1..(KeyCount + 1) /\ w \in Calls
      /\ faults \in Nat
  BY LimitsType DEF TypeOK, Calls
<1>1. CASE WriteKey(w)
  <2>1. /\ pc[w] = "write"
        /\ \/ pc' = [pc EXCEPT ![w] = "archive"]
           \/ /\ key[w] <= KeyCount
              /\ pc' = pc /\ key' = [key EXCEPT ![w] = key[w] + 1]
    BY <1>t, <1>1 DEF WriteKey, Goto
  <2>2. \/ pc'[w] = "archive"
        \/ pc'[w] = "write" /\ key[w] <= KeyCount /\ key'[w] = key[w] + 1
    BY <1>t, <2>1
  <2>3. QED
    BY <1>t, <2>1, <2>2 DEF GoesOn, WrapLeft
<1>2. CASE InsertArchive(w) \/ EndSession(w)
  <2>1. \/ pc[w] = "archive" /\ pc'[w] = "end"
        \/ pc[w] = "end" /\ pc'[w] = "empty"
    BY <1>t, <1>2 DEF InsertArchive, EndSession, Goto
  <2>2. QED
    BY <2>1 DEF GoesOn, WrapLeft
<1>3. CASE EmptyWindow(w)
  <2>1. /\ pc[w] = "empty" /\ pc'[w] = "done"
        /\ window' = {} \/ faults' = faults + 1
    BY <1>t, <1>3 DEF EmptyWindow, Ends, Goto, Lost
  <2>2. QED
    BY <1>t, <2>1 DEF GoesOn, WrapLeft
<1>4. CASE Dies(w)
  <2>1. pc'[w] = "dead"
    BY <1>t, <1>4 DEF Dies, Ends, Goto
  <2>2. WrapLeft(w)' = 0 /\ WrapLeft(w) \in Nat /\ WrapLeft(w) > 0
    BY <1>t, <2>1 DEF Keeping, WrapLeft
  <2>3. QED
    BY <2>1, <2>2 DEF GoesOn
<1>5. QED
  BY <1>1, <1>2, <1>3, <1>4
     DEF Keeping, WrapUp, ReadOldSummary, Extract

LEMMA OthersLeaveIt ==
    ASSUME TypeOK, NEW w \in WrapUps, Keeping(w), [Next]_vars,
           ~(WrapUp(w) \/ Dies(w))
    PROVE  pc'[w] = pc[w] /\ key'[w] = key[w]
<1>t. /\ pc \in [Calls -> Labels] /\ key \in [WrapUps -> 1..(KeyCount + 1)]
      /\ w \in Calls /\ w \notin Exchanges /\ w \notin Readers
      /\ pc[w] # "idle"
  BY KindsDisjoint DEF TypeOK, Calls, Keeping
<1>1. CASE UNCHANGED vars
  BY <1>1 DEF vars, locals
<1>2. ASSUME NEW e \in Exchanges, ReadIndex(e) \/ Append(e)
      PROVE  pc'[w] = pc[w] /\ key'[w] = key[w]
  BY <1>t, <1>2 DEF ReadIndex, Append, AppendUser, AppendAssistant, Goto, locals
<1>3. ASSUME NEW k \in Readers, GetContext(k)
      PROVE  pc'[w] = pc[w] /\ key'[w] = key[w]
  BY <1>t, <1>3 DEF GetContext, ReadWindow, ReadSummary, Summarise, LookUp,
       WriteSummary, Ends, Goto, locals
<1>4. ASSUME NEW v \in WrapUps, ReadSession(v) \/ WrapUp(v)
      PROVE  pc'[w] = pc[w] /\ key'[w] = key[w]
  <2>1. CASE v = w
    BY <1>t, <1>4, <2>1 DEF ReadSession, Starts
  <2>2. CASE v # w
    BY <1>t, <1>4, <2>2 DEF ReadSession, WrapUp, ReadOldSummary, Extract,
         WriteKey, InsertArchive, EndSession, EmptyWindow, Ends, Goto, locals
  <2>3. QED
    BY <2>1, <2>2
<1>5. ASSUME NEW c \in Calls, Dies(c)
      PROVE  pc'[w] = pc[w] /\ key'[w] = key[w]
  BY <1>t, <1>5 DEF Dies, Ends, Goto
<1>6. QED
  BY <1>1, <1>2, <1>3, <1>4, <1>5 DEF Next

(* A wrap-up that has extracted its facts goes on to an emptied window in  *)
(* at most one step per key and four more, for any number of other calls   *)
(* and whatever they leave in the archive.                                 *)
THEOREM WrapUpsGoOn == Spec => WrapUpGoesOn
<1>1. TypeOK /\ [Next]_vars =>
        [\A w \in WrapUps : pc[w] \in {"write", "archive", "end", "empty"} =>
           /\ WrapLeft(w)' <= WrapLeft(w)
           /\ WrapUp(w) \/ Dies(w) => WrapLeft(w)' < WrapLeft(w)
           /\ pc'[w] = "done" => window' = {} \/ faults' > faults]_vars
  <2> SUFFICES ASSUME TypeOK, [Next]_vars, NEW w \in WrapUps,
                      pc[w] \in {"write", "archive", "end", "empty"}
               PROVE  /\ WrapLeft(w)' <= WrapLeft(w)
                      /\ WrapUp(w) \/ Dies(w) => WrapLeft(w)' < WrapLeft(w)
                      /\ pc'[w] = "done" => window' = {} \/ faults' > faults
    OBVIOUS
  <2>1. CASE WrapUp(w) \/ Dies(w)
    BY <2>1, OwnStepGoesOn DEF Keeping, GoesOn
  <2>2. CASE ~(WrapUp(w) \/ Dies(w))
    <3>1. pc'[w] = pc[w] /\ key'[w] = key[w]
      BY <2>2, OthersLeaveIt DEF Keeping
    <3>2. WrapLeft(w)' = WrapLeft(w) /\ WrapLeft(w) \in Int
      BY <3>1, LimitsType DEF WrapLeft, TypeOK
    <3>3. QED
      BY <2>2, <3>1, <3>2
  <2>3. QED
    BY <2>1, <2>2
<1>2. QED
  BY <1>1, TypesKept, PTL DEF Spec, WrapUpGoesOn
=============================================================================
