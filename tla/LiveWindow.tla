----------------------------- MODULE LiveWindow -----------------------------
(***************************************************************************)
(* The memory of one mentor session.  After each exchange model-router     *)
(* reads the last message index and has context-engine append the user's   *)
(* and the mentor's message to the live window; get_context reads window   *)
(* and summary and has the older messages summarised once the window is    *)
(* long; wrap_up writes what it finds to the long-term memory and to the   *)
(* archive and empties the window.                                         *)
(*                                                                         *)
(* The streaming path appends after the answer has been sent and nobody    *)
(* waits for it, so all of these overlap.  One action is one round trip;   *)
(* no error is looked at: a read that fails has found nothing.             *)
(***************************************************************************)
EXTENDS Integers, FiniteSets

CONSTANTS
    Exchanges,   \* a question with its answer, as model-router appends them
    Readers,     \* get_context calls
    WrapUps,     \* wrap_up calls
    WindowSize,  \* LIVE_WINDOW_SIZE: messages a prompt shows
    Threshold,   \* TRIGGER_THRESHOLD: messages from which on it summarises
    KeyCount,    \* keys of memory_persistent that a wrap-up writes
    MaxOpen,     \* bound: calls that run at the same time
    MaxDeaths,   \* bound: functions that stop half way
    MaxFaults    \* bound: statements that fail unnoticed

VARIABLES
    window,      \* memory_live_window: rows
    hasSummary,  \* memory_session_summary has the session's row
    summary,     \* the messages that summary was made from
    hasArchive,  \* memory_session_archive has the session's row
    archived,    \* the messages that archive was made from
    ended,       \* sessions.status = 'completed'
    pc,          \* the next statement of a call
    index,       \* messageIndex of an exchange
    seen,        \* the messages a call has read
    known,       \* the summary a get_context has read
    key,         \* the next key a wrap-up writes
    deaths, faults,  \* bounded counters
    stored,      \* history: every row ever inserted
    digested,    \* history: messages a key was ever written from
    overtaken,   \* history: rows inserted while a wrap-up was under way
    unsaved,     \* history: messages of a wrap-up that failed to read or keep them
    earlier,     \* history: exchanges over before this one read its index
    outdated     \* history: readers that do not know the latest summary

tables == <<window, hasSummary, summary, hasArchive, archived, ended>>
locals == <<index, seen, known, key>>
history == <<stored, digested, overtaken, unsaved, earlier, outdated>>
vars == <<tables, pc, locals, deaths, faults, history>>

Calls == Exchanges \cup Readers \cup WrapUps
Keys == 1..KeyCount

ASSUME KindsDisjoint == /\ Exchanges \cap Readers = {}
                        /\ Exchanges \cap WrapUps = {}
                        /\ Readers \cap WrapUps = {}
ASSUME SizesType == /\ WindowSize \in Nat /\ Threshold \in Nat
                    /\ WindowSize < Threshold
ASSUME LimitsType == /\ KeyCount \in Nat /\ MaxOpen \in Nat
                     /\ MaxDeaths \in Nat /\ MaxFaults \in Nat

Row == [ex : Exchanges, role : {"user", "assistant"}, order : Nat]
Message(e, role, n) == [ex |-> e, role |-> role, order |-> n]

Init ==
    /\ window = {} /\ hasSummary = FALSE /\ summary = {}
    /\ hasArchive = FALSE /\ archived = {} /\ ended = FALSE
    /\ pc = [c \in Calls |-> "idle"]
    /\ index = [e \in Exchanges |-> 0]
    /\ seen = [c \in Readers \cup WrapUps |-> {}]
    /\ known = [k \in Readers |-> {}]
    /\ key = [w \in WrapUps |-> 1]
    /\ deaths = 0 /\ faults = 0
    /\ stored = {}
    /\ digested = [n \in Keys |-> {}]
    /\ overtaken = {} /\ unsaved = {}
    /\ earlier = [e \in Exchanges |-> {}]
    /\ outdated = {}

Goto(c, l) == pc' = [pc EXCEPT ![c] = l]
Over(c) == pc[c] \in {"done", "dead"}
Starts(c) ==
    /\ pc[c] = "idle"
    /\ Cardinality({d \in Calls : pc[d] # "idle" /\ ~Over(d)}) < MaxOpen

\* a get_context or wrap_up that ends forgets what it has read
Ends(c, l) ==
    /\ Goto(c, l)
    /\ seen' = [seen EXCEPT ![c] = {}]

\* a statement whose error nobody looks at
Lost == faults < MaxFaults /\ faults' = faults + 1

-----------------------------------------------------------------------------
(* model-router after an answer, and append_message *)

\* seeded fault: the index of the last message instead of the one after it
LastIndices ==
    {n \in {0} \cup {r.order : r \in window} : \A r \in window : r.order <= n}

\* (windowData?.[0]?.message_order ?? -1) + 1: the one index after the last
NextIndices ==
    {n \in {0} \cup {r.order + 1 : r \in window} : \A r \in window : r.order < n}

ReadIndex(e) ==
    /\ Starts(e)
    /\ \/ /\ \E n \in NextIndices : index' = [index EXCEPT ![e] = n]
          /\ earlier' = [earlier EXCEPT ![e] = {f \in Exchanges : Over(f)}]
          /\ UNCHANGED faults
       \/ Lost /\ UNCHANGED <<index, earlier>>
    /\ Goto(e, "user")
    /\ UNCHANGED <<tables, seen, known, key, deaths, stored, digested,
                   overtaken, unsaved, outdated>>

\* a wrap-up that has read the window and not yet emptied it
WrapLabels == {"readOld", "extract", "write", "archive", "end", "empty"}
Wrapping == \E w \in WrapUps : pc[w] \in WrapLabels

Inserted(r) ==
    /\ window' = window \cup {r}
    /\ stored' = stored \cup {r}
    /\ overtaken' = IF Wrapping THEN overtaken \cup {r} ELSE overtaken

Insert(r) ==
    \/ Inserted(r) /\ UNCHANGED faults
    \/ Lost /\ UNCHANGED <<window, stored, overtaken>>

\* an answer may be empty: then there is no second message
AppendUser(e) ==
    /\ pc[e] = "user"
    /\ Insert(Message(e, "user", index[e]))
    /\ \/ Goto(e, "assistant")
       \/ Goto(e, "done")
    /\ UNCHANGED <<hasSummary, summary, hasArchive, archived, ended, locals,
                   deaths, digested, unsaved, earlier, outdated>>

AppendAssistant(e) ==
    /\ pc[e] = "assistant"
    /\ Insert(Message(e, "assistant", index[e] + 1))
    /\ Goto(e, "done")
    /\ UNCHANGED <<hasSummary, summary, hasArchive, archived, ended, locals,
                   deaths, digested, unsaved, earlier, outdated>>

-----------------------------------------------------------------------------
(* get_context with triggerSummarization *)

\* the last WindowSize messages by message_order, ties in any order
Tails(W) ==
    {T \in SUBSET W :
        /\ Cardinality(T) = IF Cardinality(W) < WindowSize
                            THEN Cardinality(W) ELSE WindowSize
        /\ \A r \in W \ T, s \in T : r.order <= s.order}

\* toArchive, if the window is long enough to summarise
Heads(W) == IF Cardinality(W) < Threshold THEN {{}}
            ELSE {W \ T : T \in Tails(W)}

\* Promise.all: the two reads are made in either order
ReadWindow(k) ==
    /\ \/ Starts(k) /\ Goto(k, "readSummary")
       \/ pc[k] = "readWindow" /\ Goto(k, "summarise")
    /\ \/ /\ \E H \in Heads(window) : seen' = [seen EXCEPT ![k] = H]
          /\ UNCHANGED faults
       \/ Lost /\ UNCHANGED seen
    /\ UNCHANGED <<tables, index, known, key, deaths, history>>

ReadSummary(k) ==
    /\ \/ Starts(k) /\ Goto(k, "readWindow")
       \/ pc[k] = "readSummary" /\ Goto(k, "summarise")
    /\ \/ /\ known' = [known EXCEPT ![k] = summary]
          /\ outdated' = outdated \ {k}
          /\ UNCHANGED faults
       \/ /\ Lost
          /\ outdated' = outdated \cup {k}
          /\ UNCHANGED known
    /\ UNCHANGED <<tables, index, seen, key, deaths, stored, digested,
                   overtaken, unsaved, earlier>>

\* a window that is short, or a model that answers no JSON twice: the old
\* summary stands; otherwise the new one is made from the old and the head
Summarise(k) ==
    /\ pc[k] = "summarise"
    /\ \/ Ends(k, "done") /\ known' = [known EXCEPT ![k] = {}]
       \/ seen[k] # {} /\ Goto(k, "lookUp") /\ UNCHANGED <<seen, known>>
    /\ UNCHANGED <<tables, index, key, deaths, faults, history>>

LookUp(k) ==
    /\ pc[k] = "lookUp"
    /\ \/ Goto(k, IF hasSummary THEN "update" ELSE "insert") /\ UNCHANGED faults
       \/ Lost /\ Goto(k, "insert")
    /\ UNCHANGED <<tables, locals, deaths, history>>

\* seeded fault: the prompt for the summary leaves out the previous one
SummaryOfHead(k) == seen[k]

NewSummary(k) == known[k] \cup seen[k]

\* UNIQUE (session_id): the second of two inserts is refused
WriteSummary(k) ==
    /\ pc[k] \in {"update", "insert"}
    /\ \/ /\ pc[k] = "update" \/ ~hasSummary
          /\ hasSummary' = TRUE
          /\ summary' = NewSummary(k)
          /\ outdated' = outdated \cup {j \in Readers \ {k} : ~Over(j)}
          /\ UNCHANGED faults
       \/ /\ pc[k] = "insert" /\ hasSummary
          /\ UNCHANGED <<hasSummary, summary, outdated, faults>>
       \/ Lost /\ UNCHANGED <<hasSummary, summary, outdated>>
    /\ Ends(k, "done") /\ known' = [known EXCEPT ![k] = {}]
    /\ UNCHANGED <<window, hasArchive, archived, ended, index, key, deaths,
                   stored, digested, overtaken, unsaved, earlier>>

-----------------------------------------------------------------------------
(* wrapUpSession *)

ReadSession(w) ==
    /\ Starts(w)
    /\ \/ /\ seen' = [seen EXCEPT ![w] = window]
          /\ UNCHANGED <<unsaved, faults>>
       \/ /\ Lost
          /\ unsaved' = unsaved \cup window
          /\ UNCHANGED seen
    /\ Goto(w, "readOld")
    /\ UNCHANGED <<tables, index, known, key, deaths, stored, digested,
                   overtaken, earlier, outdated>>

ReadOldSummary(w) ==
    /\ pc[w] = "readOld"
    /\ \/ seen' = [seen EXCEPT ![w] = @ \cup summary] /\ UNCHANGED faults
       \/ Lost /\ UNCHANGED seen
    /\ Goto(w, "extract")
    /\ UNCHANGED <<tables, index, known, key, deaths, history>>

\* seeded fault: the window is emptied as soon as the facts are extracted
ExtractAndEmpty(w) ==
    /\ pc[w] = "extract"
    /\ window' = {}
    /\ Goto(w, "write")
    /\ UNCHANGED <<hasSummary, summary, hasArchive, archived, ended, locals,
                   deaths, faults, history>>

\* facts that are no JSON end the call
Extract(w) ==
    /\ pc[w] = "extract"
    /\ \/ Ends(w, "done")
       \/ Goto(w, "write") /\ UNCHANGED seen
    /\ UNCHANGED <<tables, index, known, key, deaths, faults, history>>

\* seeded fault: the loop goes one key too far
WriteKeyPastEnd(w) ==
    /\ pc[w] = "write"
    /\ IF key[w] > KeyCount + 1
       THEN Goto(w, "archive") /\ UNCHANGED <<key, digested>>
       ELSE /\ digested' = [digested EXCEPT ![key[w]] = @ \cup seen[w]]
            /\ key' = [key EXCEPT ![w] = @ + 1]
            /\ UNCHANGED pc
    /\ UNCHANGED <<tables, index, seen, known, deaths, faults, stored,
                   overtaken, unsaved, earlier, outdated>>

\* one upsert per key, in the order of persistentData
WriteKey(w) ==
    /\ pc[w] = "write"
    /\ IF key[w] > KeyCount
       THEN /\ Goto(w, "archive")
            /\ UNCHANGED <<key, digested, unsaved, faults>>
       ELSE /\ \/ /\ digested' = [digested EXCEPT ![key[w]] = @ \cup seen[w]]
                  /\ UNCHANGED <<unsaved, faults>>
               \/ /\ Lost
                  /\ unsaved' = unsaved \cup seen[w]
                  /\ UNCHANGED digested
            /\ key' = [key EXCEPT ![w] = @ + 1]
            /\ UNCHANGED pc
    /\ UNCHANGED <<tables, index, seen, known, deaths, stored, overtaken,
                   earlier, outdated>>

\* seeded fault: a refused archive is an error that ends the call
InsertArchiveOrStop(w) ==
    /\ pc[w] = "archive"
    /\ hasArchive' = TRUE
    /\ IF hasArchive THEN Ends(w, "done") /\ UNCHANGED archived
       ELSE archived' = seen[w] /\ Goto(w, "end") /\ UNCHANGED seen
    /\ UNCHANGED <<window, hasSummary, summary, ended, index, known, key,
                   deaths, faults, history>>

\* UNIQUE (session_id): a session that has an archive gets no second one
InsertArchive(w) ==
    /\ pc[w] = "archive"
    /\ \/ /\ ~hasArchive
          /\ hasArchive' = TRUE
          /\ archived' = seen[w]
          /\ UNCHANGED <<unsaved, faults>>
       \/ hasArchive /\ UNCHANGED <<hasArchive, archived, unsaved, faults>>
       \/ /\ Lost
          /\ unsaved' = unsaved \cup seen[w]
          /\ UNCHANGED <<hasArchive, archived>>
    /\ Goto(w, "end")
    /\ UNCHANGED <<window, hasSummary, summary, ended, locals, deaths, stored,
                   digested, overtaken, earlier, outdated>>

EndSession(w) ==
    /\ pc[w] = "end"
    /\ \/ ended' = TRUE /\ UNCHANGED faults
       \/ Lost /\ UNCHANGED ended
    /\ Goto(w, "empty")
    /\ UNCHANGED <<window, hasSummary, summary, hasArchive, archived, locals,
                   deaths, history>>

EmptyWindow(w) ==
    /\ pc[w] = "empty"
    /\ \/ window' = {} /\ UNCHANGED faults
       \/ Lost /\ UNCHANGED window
    /\ Ends(w, "done")
    /\ UNCHANGED <<hasSummary, summary, hasArchive, archived, ended, index,
                   known, key, deaths, history>>

-----------------------------------------------------------------------------
\* the function is killed, or a model call throws
Dies(c) ==
    /\ pc[c] # "idle" /\ ~Over(c)
    /\ deaths < MaxDeaths
    /\ deaths' = deaths + 1
    /\ IF c \in Exchanges THEN Goto(c, "dead") /\ UNCHANGED seen
       ELSE Ends(c, "dead")
    /\ known' = [k \in Readers |-> IF k = c THEN {} ELSE known[k]]
    /\ UNCHANGED <<tables, index, key, faults, history>>

Append(e) == AppendUser(e) \/ AppendAssistant(e)
GetContext(k) == ReadWindow(k) \/ ReadSummary(k) \/ Summarise(k) \/ LookUp(k)
                 \/ WriteSummary(k)
WrapUp(w) == ReadOldSummary(w) \/ Extract(w) \/ WriteKey(w) \/ InsertArchive(w)
             \/ EndSession(w) \/ EmptyWindow(w)

Next ==
    \/ \E e \in Exchanges : ReadIndex(e) \/ Append(e)
    \/ \E k \in Readers : GetContext(k)
    \/ \E w \in WrapUps : ReadSession(w) \/ WrapUp(w)
    \/ \E c \in Calls : Dies(c)

Spec == Init /\ [][Next]_vars

(* A wrap-up that has started goes on until it ends or dies. *)
FairSpec == Spec /\ \A w \in WrapUps : WF_vars(WrapUp(w))

-----------------------------------------------------------------------------
Labels == {"idle", "user", "assistant", "readWindow", "readSummary",
           "summarise", "lookUp", "update", "insert", "readOld", "extract",
           "write", "archive", "end", "empty", "done", "dead"}

TypeOK ==
    /\ window \subseteq Row /\ stored \subseteq Row
    /\ summary \subseteq Row /\ archived \subseteq Row
    /\ hasSummary \in BOOLEAN /\ hasArchive \in BOOLEAN /\ ended \in BOOLEAN
    /\ pc \in [Calls -> Labels]
    /\ index \in [Exchanges -> Nat]
    /\ seen \in [Readers \cup WrapUps -> SUBSET Row]
    /\ known \in [Readers -> SUBSET Row]
    /\ key \in [WrapUps -> 1..(KeyCount + 1)]
    /\ deaths \in Nat /\ faults \in Nat
    /\ digested \in [Keys -> SUBSET Row]
    /\ overtaken \subseteq Row /\ unsaved \subseteq Row
    /\ earlier \in [Exchanges -> SUBSET Exchanges]
    /\ outdated \subseteq Readers

(* model-router reads the index before it appends: messages of exchanges   *)
(* that overlapped may share an index, but an exchange that was over when  *)
(* another read its index comes before it in every prompt.                 *)
MessagesInOrder ==
    \A r, s \in window : r.ex \in earlier[s.ex] => r.order < s.order

(* wrap_up empties the window last: wherever it stops or is joined by      *)
(* another, a message leaves the window only after every key of the long-  *)
(* term memory has been written from it, unless it came while a wrap-up    *)
(* was under way or a statement failed; and then the session is ended and  *)
(* has an archive.                                                         *)
EmptiedWasKept ==
    /\ \A r \in stored \ window :
          r \in overtaken \cup unsaved \/ \A n \in Keys : r \in digested[n]
    /\ stored # window /\ faults = 0 => ended /\ hasArchive

(* triggerSummarization hands the old summary on: what a summary was made  *)
(* from is lost to the next one only if two get_contexts overlapped or the *)
(* old one could not be read, also when the messages themselves have left  *)
(* the window.                                                             *)
SummaryHandedOn ==
    [][summary \subseteq summary' \/ \E k \in outdated : pc[k] # pc'[k]]_vars

(* A wrap-up that has extracted its facts goes on to empty the window,     *)
(* however many others run and whatever they have left in the archive,     *)
(* unless it dies or a statement fails.                                    *)
WrapUpEmpties ==
    \A w \in WrapUps :
        pc[w] = "write"
            ~> pc[w] = "dead" \/ faults > 0 \/ window \subseteq overtaken

(* Statements a wrap-up that has its facts has yet to run.                 *)
WrapLeft(w) ==
    CASE pc[w] = "write" -> KeyCount + 5 - key[w]
      [] pc[w] = "archive" -> 3
      [] pc[w] = "end" -> 2
      [] pc[w] = "empty" -> 1
      [] OTHER -> 0

(* WrapUpEmpties as a bound, for one that dies or fails too: nothing but   *)
(* its own steps touches what is left of it, each takes one off, and the   *)
(* only way to its end is through a window that has been emptied, whatever *)
(* the others have left in the archive or appended, or a failed delete.    *)
WrapUpGoesOn ==
    [][\A w \in WrapUps : pc[w] \in {"write", "archive", "end", "empty"} =>
           /\ WrapLeft(w)' <= WrapLeft(w)
           /\ WrapUp(w) \/ Dies(w) => WrapLeft(w)' < WrapLeft(w)
           /\ pc'[w] = "done" => window' = {} \/ faults' > faults]_vars
=============================================================================
