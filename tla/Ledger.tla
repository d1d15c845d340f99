------------------------------- MODULE Ledger -------------------------------
(***************************************************************************)
(* What the registry promises, with no groups, embeddings or repository    *)
(* calls in sight: a table of contracts whose rows come, change and go in  *)
(* single steps, and an append-only log.  Each change leaves its writer    *)
(* owing one log entry, but for a change to a refused text; the writer     *)
(* logs it or is lost, and nothing is logged that is not owed.             *)
(***************************************************************************)
EXTENDS Naturals, Sequences

CONSTANTS
  Writers,  \* who may owe an entry
  Refused   \* texts that a writer is told are refused

VARIABLES
  table,  \* id -> row [project, key, text, ...]
  used,   \* the ids ever given to a contract
  log,    \* what has been logged
  owed    \* <<writer, entry>> committed and not yet logged

ledger == <<table, used, log, owed>>

Entry(action, i) == [action |-> action, resource |-> "contract", id |-> i]

Owes(w) == \E e \in owed : e[1] = w

Owe(w, action, i) == ~Owes(w) /\ owed' = owed \cup {<<w, Entry(action, i)>>}

(* The row i of the new table has a project and key no other row has.      *)
KeyFree(tab, i) ==
  \A j \in DOMAIN tab \ {i} :
    ~(tab[j].project = tab[i].project /\ tab[j].key = tab[i].key)

SameElsewhere(tab, i) == \A j \in DOMAIN table \ {i} : tab[j] = table[j]

Create(w, i) ==
  /\ i \notin used
  /\ used' = used \cup {i}
  /\ DOMAIN table' = DOMAIN table \cup {i}
  /\ SameElsewhere(table', i)
  /\ KeyFree(table', i)
  /\ Owe(w, "create", i)
  /\ UNCHANGED log

Amend(w, i) ==
  /\ i \in DOMAIN table
  /\ DOMAIN table' = DOMAIN table
  /\ SameElsewhere(table', i)
  /\ table'[i].project = table[i].project
  /\ KeyFree(table', i)
  /\ Owe(w, "update", i)
  /\ UNCHANGED <<used, log>>

(* A change its writer is told is refused: the row is written all the      *)
(* same, its new text is one of the refused ones, and no entry is owed.    *)
AmendRefused(i) ==
  /\ i \in DOMAIN table
  /\ DOMAIN table' = DOMAIN table
  /\ SameElsewhere(table', i)
  /\ table'[i].project = table[i].project
  /\ table'[i].text \in Refused
  /\ KeyFree(table', i)
  /\ UNCHANGED <<used, log, owed>>

Remove(w, i) ==
  /\ i \in DOMAIN table
  /\ table' = [j \in DOMAIN table \ {i} |-> table[j]]
  /\ Owe(w, "delete", i)
  /\ UNCHANGED <<used, log>>

Record(w) ==
  /\ \E e \in owed : /\ e[1] = w
                     /\ log' = Append(log, e[2])
                     /\ owed' = owed \ {e}
  /\ UNCHANGED <<table, used>>

(* The log also takes entries about other resources.                       *)
RecordOther ==
  /\ Len(log') = Len(log) + 1
  /\ log' = Append(log, log'[Len(log')])
  /\ log'[Len(log')].resource # "contract"
  /\ UNCHANGED <<table, used, owed>>

(* The writer is lost before it has logged its change.                     *)
Forget(w) ==
  /\ Owes(w)
  /\ owed' = {e \in owed : e[1] # w}
  /\ UNCHANGED <<table, used, log>>

LedgerInit == table = << >> /\ used = {} /\ log = << >> /\ owed = {}

LedgerNext ==
  \/ \E w \in Writers :
       \/ \E i \in used' : Create(w, i)
       \/ \E i \in DOMAIN table : Amend(w, i) \/ Remove(w, i)
       \/ Record(w) \/ Forget(w)
  \/ \E i \in DOMAIN table : AmendRefused(i)
  \/ RecordOther

LedgerSpec == LedgerInit /\ [][LedgerNext]_ledger
=============================================================================
