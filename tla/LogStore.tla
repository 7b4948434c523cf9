------------------------------- MODULE LogStore -------------------------------
(***************************************************************************)
(* main/log_store.c: what every task logs is gathered character by         *)
(* character in one accumulator, cut into lines, and kept in a ring that   *)
(* the web server's task copies the newest lines from.                     *)
(*                                                                         *)
(* The recursive mutex makes a text, and a copy, one critical section; a   *)
(* character is a step so that the accumulator's limit is seen.  A line is *)
(* the characters it has; the time in front of it is left out.             *)
(***************************************************************************)
EXTENDS Naturals, Sequences

CONSTANTS Entries,   \* LOG_STORE_MAX_ENTRIES
          AccumMax,  \* LOG_STORE_ACCUM_MAX
          FormatMax, \* LOG_STORE_FORMAT_BUF_MAX
          LineMax,   \* characters LOG_STORE_LINE_MAX leaves for a line
          Texts,     \* what is logged: sequences of characters
          Newline,   \* the character that ends a line
          DefaultLimit, MaxLimit, \* WEB_SERVICE_LOGS_DEFAULT_LIMIT, ..._MAX_LIMIT
          Queries,   \* limits that are asked for; 0 stands for what is none
          MaxHeard   \* bound of the model: characters logged

ASSUME LogAssumption ==
  /\ Entries \in Nat \ {0} /\ AccumMax \in Nat /\ AccumMax > 2
  /\ FormatMax \in Nat \ {0} /\ LineMax \in Nat /\ MaxHeard \in Nat
  /\ DefaultLimit \in Nat \ {0} /\ MaxLimit \in Nat \ {0}
  /\ Queries \subseteq Nat

Chars == UNION {{text[i] : i \in DOMAIN text} : text \in Texts}

ASSUME TextAssumption == \A text \in Texts : text \in Seq(Chars)

VARIABLES
  logPhase,   \* hooked: the hook is installed; up: s_log_store.initialized
  entries, head, count, nextId, \* the ring
  accum,      \* the accumulator
  rest,       \* what is left of the text whose writer holds the lock
  timeSynced, \* s_log_store.time_synced
  copied, copiedAt, \* the last copy, and nextId when it was made
  history,    \* history: every line stored, by its id
  heard, told \* history: the characters logged, and those of ended lines

ringVars == <<entries, head, count, nextId, history>>
copyVars == <<copied, copiedAt>>
textVars == <<accum, rest, heard, told>>
logVars == <<logPhase, ringVars, textVars, timeSynced, copyVars>>

Lines == Seq(Chars)
Empty == [id |-> 0, line |-> <<>>]

LogTypeOK ==
  /\ logPhase \in {"off", "hooked", "up"}
  /\ entries \in [0..(Entries - 1) -> [id : Nat, line : Lines]]
  /\ head \in 0..(Entries - 1) /\ count \in 0..Entries
  /\ nextId \in Nat
  /\ history \in Seq(Lines) /\ Len(history) = nextId
  /\ accum \in Lines /\ Len(accum) < AccumMax
  /\ rest \in Lines
  /\ heard \in Lines /\ told \in Lines
  /\ timeSynced \in BOOLEAN
  /\ copied \in Seq([id : Nat, line : Lines]) /\ copiedAt \in Nat

LogInit ==
  /\ logPhase = "off"
  /\ entries = [i \in 0..(Entries - 1) |-> Empty]
  /\ head = 0 /\ count = 0 /\ nextId = 0 /\ history = <<>>
  /\ accum = <<>> /\ rest = <<>> /\ heard = <<>> /\ told = <<>>
  /\ timeSynced = FALSE
  /\ copied = <<>> /\ copiedAt = 0

\* log_store_init: lines that come before its last store are not kept
InstallHook ==
  /\ logPhase = "off" /\ logPhase' = "hooked"
  /\ UNCHANGED <<ringVars, textVars, timeSynced, copyVars>>

SetInitialized ==
  /\ logPhase = "hooked" /\ logPhase' = "up"
  /\ UNCHANGED <<ringVars, textVars, timeSynced, copyVars>>

MarkTimeSynced ==
  /\ ~timeSynced /\ timeSynced' = TRUE
  /\ UNCHANGED <<logPhase, ringVars, textVars, copyVars>>

-----------------------------------------------------------------------------
\* i % LOG_STORE_MAX_ENTRIES, for an i below twice that
Wrap(i) == IF i < Entries THEN i ELSE i - Entries

NextHead == Wrap(head + 1)

\* a line that is too long for its entry loses its end
Clipped(line) == SubSeq(line, 1, IF Len(line) < LineMax THEN Len(line) ELSE LineMax)

(***************************************************************************)
(* push_log_line_locked.                                                   *)
(***************************************************************************)
Push(line) ==
  IF line = <<>> \/ logPhase # "up"
    THEN UNCHANGED ringVars
    ELSE /\ entries' = [entries EXCEPT ![head] =
                          [id |-> nextId + 1, line |-> Clipped(line)]]
         /\ nextId' = nextId + 1
         /\ head' = NextHead
         /\ count' = IF count < Entries THEN count + 1 ELSE count
         /\ history' = Append(history, line)

(***************************************************************************)
(* log_store_vprintf: the text is cut to the format buffer, possibly       *)
(* without its newline, and then taken character by character.             *)
(***************************************************************************)
Formatted(text) ==
  SubSeq(text, 1, IF Len(text) < FormatMax THEN Len(text) ELSE FormatMax - 1)

Vprintf(text) ==
  /\ logPhase # "off" /\ rest = <<>>
  /\ Len(heard) < MaxHeard
  /\ rest' = Formatted(text)
  /\ UNCHANGED <<logPhase, ringVars, accum, heard, told, timeSynced, copyVars>>

Room == Len(accum) < AccumMax - 1

\* the line this character ends, either because it is a newline or for want of room
Ended(c) == IF c = Newline \/ ~Room THEN accum ELSE <<>>

AccumAfter(c) ==
  IF c = Newline THEN <<>> ELSE IF Room THEN Append(accum, c) ELSE <<c>>

PutChar ==
  /\ rest # <<>>
  /\ LET c == Head(rest) IN
       /\ Push(Ended(c))
       /\ accum' = AccumAfter(c)
       /\ told' = told \o Ended(c)
       /\ heard' = IF c = Newline THEN heard ELSE Append(heard, c)
  /\ rest' = Tail(rest)
  /\ UNCHANGED <<logPhase, timeSynced, copyVars>>

-----------------------------------------------------------------------------
(***************************************************************************)
(* log_store_copy_recent, as logs_get_handler calls it: the buffer it      *)
(* fills has room for limit entries.                                       *)
(***************************************************************************)
Wanted(limit) == IF limit = 0 \/ limit > count THEN count ELSE limit

\* Fault: the copy begins at the oldest line whatever is wanted.
FirstOfAll(limit) == Wrap(head + Entries - count)

First(limit) == Wrap(head + Entries - Wanted(limit))

CopyRecent(limit) ==
  /\ logPhase = "up" /\ rest = <<>>
  /\ copied' = [i \in 1..Wanted(limit) |-> entries[Wrap(First(limit) + i - 1)]]
  /\ copiedAt' = nextId
  /\ UNCHANGED <<logPhase, ringVars, textVars, timeSynced>>

\* logs_limit_from_query
LogsLimit(asked) ==
  IF asked = 0 THEN DefaultLimit ELSE IF asked > MaxLimit THEN MaxLimit ELSE asked

LogsGet == \E asked \in Queries : CopyRecent(LogsLimit(asked))

LogNext ==
  \/ InstallHook \/ SetInitialized \/ MarkTimeSynced
  \/ \E text \in Texts : Vprintf(text)
  \/ PutChar
  \/ LogsGet

LogSpec == LogInit /\ [][LogNext]_logVars

-----------------------------------------------------------------------------
(***************************************************************************)
(* The ring holds the newest lines: going back from its head, the ids go   *)
(* down by one, and each entry is the line that was given that id.         *)
(***************************************************************************)
RingHoldsNewest ==
  /\ count = IF nextId < Entries THEN nextId ELSE Entries
  /\ \A k \in 1..count :
       entries[Wrap(head + Entries - k)] =
         [id |-> nextId - k + 1, line |-> Clipped(history[nextId - k + 1])]

(***************************************************************************)
(* Web-Service.md:55, "records in chronological order": a copy is the      *)
(* newest lines of its moment, the last one last.                          *)
(***************************************************************************)
CopiedNewest ==
  /\ Len(copied) <= copiedAt
  /\ \A i \in 1..Len(copied) :
       copied[i] = [id |-> copiedAt - Len(copied) + i,
                    line |-> Clipped(history[copiedAt - Len(copied) + i])]

(***************************************************************************)
(* No character is lost or doubled where the accumulator is cut into       *)
(* lines, also when it is full.  (An entry that is too short for its line  *)
(* and the format buffer do cut characters off.)                           *)
(***************************************************************************)
NothingLost == told \o accum = heard

(***************************************************************************)
(* What was logged last can be read: no character is lost on its way into  *)
(* a line, no line on its way into the ring while newer ones are there,    *)
(* and a reader gets the newest of them, in their order.                   *)
(***************************************************************************)
LogIsFaithful == NothingLost /\ RingHoldsNewest /\ CopiedNewest
=============================================================================
