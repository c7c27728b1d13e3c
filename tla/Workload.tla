------------------------------ MODULE Workload ------------------------------
(***************************************************************************)
(* What becomes of a generated workload on its way to the tree: the        *)
(* commands that a front end reads from the script and the files it loads, *)
(* and the answers a dictionary gives to them, against those of the        *)
(* reference program evaluate.py for the operations in the order they were *)
(* generated.  Where the tree is no dictionary is the subject of LSMTree.  *)
(***************************************************************************)
EXTENDS Generator

CONSTANTS DELETED_FLAG, None

(* The answer to a range, keys with their values, is no value.             *)
ASSUME AnswersAssumption ==
  \A ks \in SUBSET RandomKeys : [ks -> RandomVals] \cap (RandomVals \cup {None}) = {}

-----------------------------------------------------------------------------
(* load() of database.cpp, which takes the quotes off the name: a read     *)
(* after the last pair leaves key and value as they are, and they are      *)
(* inserted once more.  (The language calls them uninitialized in a new    *)
(* iteration; as the Makefile builds the program, they are the variables   *)
(* of the last one.)                                                       *)
load(file) == Append(file, Last(file))

(* The commands of the script as processCommands() of database.cpp gives   *)
(* them to the tree.                                                       *)
Commands == FlattenSeq([n \in DOMAIN script |->
  IF script[n].op = "load" THEN load(files[script[n].file]) ELSE <<script[n]>>])

-----------------------------------------------------------------------------
(* The dictionaries.  A state is a function from keys to values or None,   *)
(* with the answers given so far.                                          *)

Fresh == [db |-> [k \in RandomKeys |-> None], answers |-> <<>>]

(* One line of evaluate.py.                                                *)
Evaluate(state, line) ==
  CASE line.op = "put"    -> [state EXCEPT !.db[line.key] = line.value]
    [] line.op = "delete" -> [state EXCEPT !.db[line.key] = None]
    [] line.op = "get"    -> [state EXCEPT !.answers = Append(@, state.db[line.key])]
    [] line.op = "range"  ->
         LET valid_keys == {k \in RandomKeys : /\ state.db[k] # None
                                               /\ line.start <= k /\ k < line.end}
         IN  [state EXCEPT !.answers = Append(@, [k \in valid_keys |-> state.db[k]])]

(* The same command given to the tree: a put of DELETED_FLAG is the        *)
(* tombstone that delete_key() inserts.                                    *)
Execute(state, line) ==
  IF line.op = "put" /\ line.value = DELETED_FLAG
  THEN Evaluate(state, [op |-> "delete", key |-> line.key])
  ELSE Evaluate(state, line)

Answers(step(_, _), lines) == FoldLeft(step, Fresh, lines).answers

(* An answer of the reference without the values that mean "deleted".      *)
Undeleted(answer) ==
  IF answer \in RandomVals \cup {None} THEN IF answer = DELETED_FLAG THEN None ELSE answer
  ELSE Restrict(answer, {k \in DOMAIN answer : answer[k] # DELETED_FLAG})

-----------------------------------------------------------------------------
TypeOK ==
  /\ <<asked, external_puts>> \in Settings
  /\ \A op \in Operations : current[op] \in 0 .. asked[op]
  /\ prev_operation \in Operations \cup {nobody}
  /\ old_puts_pool \in Seq(RandomKeys) /\ old_gets_pool \in Seq(RandomKeys)

(* The commands that reach the tree, through script and files and with the *)
(* last pair of each file loaded twice, mean what the operations meant in  *)
(* the order they were made: but for the value that stands for "deleted",  *)
(* all answers are those of the reference.                                 *)
AnswersPreserved ==
  LET expected == Answers(Evaluate, operations)
  IN  Answers(Execute, Commands) = [n \in DOMAIN expected |-> Undeleted(expected[n])]

(* No script loads an empty file: load() would insert a key and a value    *)
(* that nothing has set.                                                   *)
NothingUnset == \A n \in DOMAIN files : files[n] # <<>>

(* Only keys put before are deleted; in particular, the generator never    *)
(* draws one from an empty pool (a remainder of a division by zero).       *)
DeletesKnownKeys ==
  \A n \in DOMAIN operations : operations[n].op = "delete" =>
     \E m \in 1 .. (n - 1) : operations[m].op = "put" /\ operations[m].key = operations[n].key

(* The generator ends, unless it is asked for other operations and no put. *)
GeneratorEnds ==
  (asked["put"] > 0 \/ \A op \in Operations : asked[op] = 0) => <>Finished
=============================================================================
