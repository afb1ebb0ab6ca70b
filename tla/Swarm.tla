------------------------------- MODULE Swarm -------------------------------
(***************************************************************************)
(* The swarm skill: .agents/skills/swarm/scripts, index.ts over table.ts   *)
(* and executor.ts.  One conversation; its code runs in sessions whose     *)
(* memory is lost at their end, while the table files stay.  Code between  *)
(* two awaits is one step, and several calls may be under way at once.     *)
(*                                                                         *)
(* The content of a table is, for every row, the runs whose results it     *)
(* carries.  Row arrays and cache entries are objects: they are named by   *)
(* the create or run that made them, and may be shared.                    *)
(***************************************************************************)
EXTENDS SwarmBatching

CONSTANTS
    NumRows,    \* of every table
    Tables,     \* calls of create(), each with the table it makes
    Runs,       \* calls of run()
    MaxTables,  \* MAX_TABLES
    Sizes,      \* the batch sizes runs may ask for
    Lackable,   \* rows that may lack a column of an instruction
    Concurrency, \* what each run asks for; MAX_SUBAGENTS where it is left out
    MaxSessions \* bound on the sessions that follow one another

ASSUME SwarmAssumption ==
    /\ NumRows \in Nat \ {0} /\ MaxTables \in Nat \ {0} /\ MaxSessions \in Nat
    /\ IsFiniteSet(Tables) /\ Tables # {} /\ Tables \cap Runs = {} /\ "nobody" \notin Tables \cup Runs
    /\ Lackable \subseteq 1..NumRows /\ Concurrency \in [Runs -> Int]
    /\ \A how \in Sizes : \/ how = NoSize
                          \/ how.kind = "uniform" /\ how.size \in Int
                          \/ how.kind = "per row" /\ how.size \in [1..NumRows -> Int]

Rows == 1..NumRows
Owners == Tables \cup Runs
Nobody == "nobody"
Content == [Rows -> SUBSET Runs]
Fresh == [x \in Rows |-> {}]
NoFile == [kind |-> "none", rows |-> Fresh]
Emptied == [kind |-> "emptied", rows |-> Fresh]
Holding(c) == [kind |-> "table", rows |-> c]

VARIABLES
    file,       \* content of each table's file
    seq,        \* the number in its name
    born,       \* history: tables in the order they were numbered
    counter,    \* sequenceCounter
    cache,      \* table -> the owner of its cached entry
    array,      \* row arrays by owner
    entry,      \* cached entries by owner: whose array, lastWritten
    create,
    run,
    session,
    overlapped  \* history: tables two runs or a run and an eviction met on

vars == <<file, seq, born, counter, cache, array, entry, create, run, session, overlapped>>

CreateSteps == {"idle", "list", "evict", "empty", "number", "write", "remember", "done", "lost"}
RunSteps == {"idle", "read", "populate", "dispatch", "edit", "written", "done", "thrown"}

NoRun == [at |-> "idle", table |-> CHOOSE t \in Tables : TRUE, width |-> 1, how |-> NoSize, missing |-> FALSE,
          lacks |-> {}, read |-> Fresh, of |-> Nobody, matched |-> {}, units |-> <<>>,
          next |-> 1, calls |-> {}, got |-> {}, into |-> Nobody, content |-> Fresh,
          prev |-> Fresh, merged |-> {}, failed |-> 0]
NoCreate == [at |-> "idle", evict |-> <<>>, prev |-> NoFile]

TypeOK ==
    /\ file \in [Tables -> {NoFile, Emptied} \cup {Holding(c) : c \in Content}]
    /\ seq \in [Tables -> Nat] /\ counter \in Nat
    /\ cache \in [Tables -> Owners \cup {Nobody}]
    /\ array \in [Owners -> Content]
    /\ entry \in [Owners -> [rows : Owners, last : Content]]
    /\ \A t \in Tables : create[t].at \in CreateSteps
    /\ \A r \in Runs : LET u == run[r] IN
         /\ u.at \in RunSteps /\ u.merged \subseteq u.matched /\ u.matched \subseteq Rows
         /\ u.calls \subseteq 1..Len(u.units) /\ Cardinality(u.calls) <= u.width
         /\ u.width <= MaxSubagents

Init ==
    /\ file = [t \in Tables |-> NoFile] /\ seq = [t \in Tables |-> 0] /\ born = <<>>
    /\ counter = 0 /\ cache = [t \in Tables |-> Nobody]
    /\ array = [o \in Owners |-> Fresh]
    /\ entry = [o \in Owners |-> [rows |-> o, last |-> Fresh]]
    /\ create = [t \in Tables |-> NoCreate] /\ run = [r \in Runs |-> NoRun]
    /\ session = 1 /\ overlapped = {}

Existing == {t \in Tables : file[t] # NoFile}
\* The files sorted by name, that is by number; equal numbers by a random id.
Listings == {s \in SetToSeqs(Existing) : \A i, j \in 1..Len(s) : i < j => seq[s[i]] <= seq[s[j]]}
Running(r) == run[r].at \notin {"idle", "done", "thrown"}

(***************************************************************************)
(* create(): evict, number, write, remember.                               *)
(***************************************************************************)
CreateTo(t, c) == create' = [create EXCEPT ![t] = c]
KeepRuns == UNCHANGED <<array, run, session>>

BeginCreate(t) ==
    /\ create[t].at = "idle"
    /\ CreateTo(t, [NoCreate EXCEPT !.at = "list"])
    /\ UNCHANGED <<file, seq, born, counter, cache, entry, overlapped>> /\ KeepRuns

\* The oldest files, so that with the new one there are MAX_TABLES left.
ListForEviction(t) ==
    \E s \in Listings :
    LET old == SubSeq(s, 1, Len(s) - MaxTables + 1)
    IN /\ create[t].at = "list"
       /\ CreateTo(t, [NoCreate EXCEPT !.at = IF old = <<>> THEN "number" ELSE "evict", !.evict = old])
       /\ UNCHANGED <<file, seq, born, counter, cache, entry, overlapped>> /\ KeepRuns

\* The entry is forgotten before the file is emptied.
ForgetTable(t) ==
    LET e == Head(create[t].evict)
    IN /\ create[t].at = "evict"
       /\ cache' = [cache EXCEPT ![e] = Nobody]
       /\ CreateTo(t, [create[t] EXCEPT !.at = "empty",
                         !.prev = IF cache[e] = Nobody THEN NoFile ELSE Holding(entry[cache[e]].last)])
       /\ overlapped' = IF \E r \in Runs : Running(r) /\ run[r].table = e THEN overlapped \cup {e} ELSE overlapped
       /\ UNCHANGED <<file, seq, born, counter, entry>> /\ KeepRuns

\* editFile replaces the content it is told of; any other is left alone, and
\* what it answers is not looked at.  Without an entry nothing is replaced.
EmptyFile(t) ==
    LET e == Head(create[t].evict)
        rest == Tail(create[t].evict)
    IN /\ create[t].at = "empty"
       /\ file' = IF file[e] = create[t].prev THEN [file EXCEPT ![e] = Emptied] ELSE file
       /\ CreateTo(t, [NoCreate EXCEPT !.at = IF rest = <<>> THEN "number" ELSE "evict", !.evict = rest])
       /\ UNCHANGED <<seq, born, counter, cache, entry, overlapped>> /\ KeepRuns

\* Mutant: the files of earlier sessions are not looked at.
NumberFromMemory(t) ==
    /\ create[t].at = "number"
    /\ seq' = [seq EXCEPT ![t] = counter] /\ counter' = counter + 1 /\ born' = Append(born, t)
    /\ CreateTo(t, [NoCreate EXCEPT !.at = "write"])
    /\ UNCHANGED <<file, cache, entry, overlapped>> /\ KeepRuns

\* nextSequence
Number(t) ==
    LET n == Max({counter} \cup {seq[x] + 1 : x \in Existing})
    IN /\ create[t].at = "number"
       /\ seq' = [seq EXCEPT ![t] = n] /\ counter' = n + 1 /\ born' = Append(born, t)
       /\ CreateTo(t, [NoCreate EXCEPT !.at = "write"])
       /\ UNCHANGED <<file, cache, entry, overlapped>> /\ KeepRuns

WriteFile(t) ==
    /\ create[t].at = "write"
    /\ file' = [file EXCEPT ![t] = Holding(Fresh)]
    /\ CreateTo(t, [NoCreate EXCEPT !.at = "remember"])
    /\ UNCHANGED <<seq, born, counter, cache, entry, overlapped>> /\ KeepRuns

Remember(t) ==
    /\ create[t].at = "remember"
    /\ cache' = [cache EXCEPT ![t] = t]
    /\ CreateTo(t, [NoCreate EXCEPT !.at = "done"])
    /\ UNCHANGED <<file, seq, born, counter, entry, overlapped>> /\ KeepRuns

(***************************************************************************)
(* run(): load, select and cut, dispatch, merge and save.                  *)
(***************************************************************************)
KeepTables == UNCHANGED <<file, seq, born, counter, create, session>>

\* Mutant: a retry takes every row.
MatchedAll(u, a) == Rows
\* The filter { column, exists: false } selects the rows without a result.
Matched(u, a) == IF u.missing THEN {x \in Rows : a[x] = {}} ELSE Rows

EffectiveConcurrency(asked) == Max({1, Min({asked, MaxSubagents})})

\* Mutant: a worker for every task.
WorkerPerTask(n, width) == n
WorkerCount(n, width) == Min({width, n})

\* From the loaded array of owner o, holding a, to the first calls, without
\* an await.  Nothing matched ends the run; an instruction with a column no
\* matched row has throws.
Selected(u, o, a) ==
    LET m == Matched(u, a)
        batches == ResolveBatchGroups(Within([x \in Rows |-> x], m), u.width, u.how)
        units == BuildDispatchUnits(batches, u.lacks)
        n == WorkerCount(Len(units), u.width)
    IN CASE m = {} -> [NoRun EXCEPT !.at = "done", !.table = u.table]
         [] m # {} /\ m \subseteq u.lacks -> [NoRun EXCEPT !.at = "thrown", !.table = u.table]
         [] OTHER -> [u EXCEPT !.at = "dispatch", !.of = o, !.matched = m, !.units = units,
                               !.next = n + 1, !.calls = 1..n,
                               !.failed = Len(batches) - Len(units), !.read = Fresh]

\* loadTable answers from the cache, or goes to the files.
BeginRun(r, t, how, missing, lacks) ==
    LET u == [NoRun EXCEPT !.table = t, !.width = EffectiveConcurrency(Concurrency[r]),
                           !.how = how, !.missing = missing, !.lacks = lacks]
        o == IF cache[t] = Nobody THEN Nobody ELSE entry[cache[t]].rows
    IN /\ run[r].at = "idle" /\ create[t].at = "done"
       /\ run' = [run EXCEPT ![r] = IF o = Nobody THEN [u EXCEPT !.at = "read"] ELSE Selected(u, o, array[o])]
       /\ overlapped' = IF \/ \E x \in Runs : Running(x) /\ run[x].table = t
                           \/ \E c \in Tables : create[c].at = "empty" /\ Head(create[c].evict) = t
                          THEN overlapped \cup {t} ELSE overlapped
       /\ UNCHANGED <<cache, array, entry>> /\ KeepTables

\* An emptied file was evicted: loadTable throws.
ReadTable(r) ==
    LET f == file[run[r].table]
    IN /\ run[r].at = "read"
       /\ run' = [run EXCEPT ![r] = IF f = Emptied THEN [NoRun EXCEPT !.at = "thrown", !.table = run[r].table]
                                    ELSE [@ EXCEPT !.at = "populate", !.read = f.rows]]
       /\ UNCHANGED <<cache, array, entry, overlapped>> /\ KeepTables

Populate(r) ==
    LET u == run[r]
    IN /\ u.at = "populate"
       /\ array' = [array EXCEPT ![r] = u.read]
       /\ entry' = [entry EXCEPT ![r] = [rows |-> r, last |-> u.read]]
       /\ cache' = [cache EXCEPT ![u.table] = r]
       /\ run' = [run EXCEPT ![r] = Selected(u, r, u.read)]
       /\ UNCHANGED overlapped /\ KeepTables

\* Mutant: a worker whose call fails takes no other.
AnswerStopping(r, k, ans) ==
    LET u == run[r]
        more == u.next <= Len(u.units) /\ ans.ok
    IN /\ u.at = "dispatch" /\ k \in u.calls
       /\ run' = [run EXCEPT ![r].got = @ \cup Unpack(u.units[k], ans),
                             ![r].calls = (@ \ {k}) \cup (IF more THEN {u.next} ELSE {}),
                             ![r].next = IF more THEN @ + 1 ELSE @]
       /\ UNCHANGED <<cache, array, entry, overlapped>> /\ KeepTables

\* A worker notes the answer at its place and takes the next task.  Of the
\* answers the model keeps the rows that will get a result from them.
Answer(r, k, ans) ==
    LET u == run[r]
        more == u.next <= Len(u.units)
    IN /\ u.at = "dispatch" /\ k \in u.calls
       /\ run' = [run EXCEPT ![r].got = @ \cup Unpack(u.units[k], ans),
                             ![r].calls = (@ \ {k}) \cup (IF more THEN {u.next} ELSE {}),
                             ![r].next = IF more THEN @ + 1 ELSE @]
       /\ UNCHANGED <<cache, array, entry, overlapped>> /\ KeepTables

\* The answers go into the rows of the array that was loaded.  saveTable then
\* looks the entry up again: an evicted table is gone, and the save throws.
MergeAndSave(r) ==
    LET u == run[r]
        content == [x \in Rows |-> IF x \in u.got THEN array[u.of][x] \cup {r} ELSE array[u.of][x]]
        e == cache[u.table]
    IN /\ u.at = "dispatch" /\ u.calls = {} /\ u.next = Len(u.units) + 1
       /\ array' = [array EXCEPT ![u.of] = content]
       /\ IF e = Nobody
            THEN /\ run' = [run EXCEPT ![r] = [NoRun EXCEPT !.at = "thrown", !.table = u.table]]
                 /\ UNCHANGED entry
            ELSE /\ entry' = [entry EXCEPT ![e].rows = u.of]
                 /\ run' = [run EXCEPT ![r] = [NoRun EXCEPT !.at = "edit", !.table = u.table, !.into = e,
                              !.content = content, !.prev = entry[e].last, !.matched = u.matched,
                              !.merged = u.got, !.failed = u.failed + CountFailed(u.units, u.got)]]
       /\ UNCHANGED <<cache, overlapped>> /\ KeepTables

\* Mutant: saveTable keeps the content of the first write.
RememberSaveForgotten(r) ==
    /\ run[r].at = "written"
    /\ run' = [run EXCEPT ![r] = [NoRun EXCEPT !.at = "done", !.table = run[r].table, !.matched = run[r].matched,
                                            !.merged = run[r].merged, !.failed = run[r].failed]]
    /\ UNCHANGED <<file, entry, seq, born, counter, create, session, cache, array, overlapped>>

EditFile(r) ==
    LET u == run[r]
    IN /\ u.at = "edit"
       /\ file' = IF file[u.table] = Holding(u.prev) THEN [file EXCEPT ![u.table] = Holding(u.content)] ELSE file
       /\ run' = [run EXCEPT ![r].at = "written"]
       /\ UNCHANGED <<seq, born, counter, create, session, cache, array, entry, overlapped>>

RememberSave(r) ==
    LET u == run[r]
    IN /\ u.at = "written"
       /\ entry' = [entry EXCEPT ![u.into].last = u.content]
       /\ run' = [run EXCEPT ![r] = [NoRun EXCEPT !.at = "done", !.table = u.table, !.matched = u.matched,
                                               !.merged = u.merged, !.failed = u.failed]]
       /\ UNCHANGED <<cache, array, overlapped>> /\ KeepTables

\* The session ends: its memory is lost and what was under way stops.
NewSession ==
    /\ session < MaxSessions /\ session' = session + 1
    /\ cache' = [t \in Tables |-> Nobody] /\ counter' = 0
    /\ create' = [t \in Tables |-> IF create[t].at \in {"idle", "done"} THEN create[t]
                                   ELSE [NoCreate EXCEPT !.at = "lost"]]
    /\ run' = [r \in Runs |-> IF Running(r) THEN [NoRun EXCEPT !.at = "thrown", !.table = run[r].table] ELSE run[r]]
    /\ array' = [o \in Owners |-> Fresh]
    /\ entry' = [o \in Owners |-> [rows |-> o, last |-> Fresh]]
    /\ UNCHANGED <<file, seq, born, overlapped>>

CreateStep(t) == \/ ListForEviction(t) \/ ForgetTable(t) \/ EmptyFile(t)
                 \/ Number(t) \/ WriteFile(t) \/ Remember(t)
RunStep(r) == \/ ReadTable(r) \/ Populate(r) \/ MergeAndSave(r) \/ EditFile(r) \/ RememberSave(r)
              \/ \E k \in run[r].calls : \E ans \in AnswersTo(run[r].units[k], Rows) : Answer(r, k, ans)

Next ==
    \/ \E t \in Tables : BeginCreate(t) \/ CreateStep(t)
    \/ \E r \in Runs : \/ RunStep(r)
                       \/ \E t \in Tables, how \in Sizes, m \in BOOLEAN, l \in SUBSET Lackable :
                             file[t] # NoFile /\ BeginRun(r, t, how, m, l)
    \/ NewSession

Spec == Init /\ [][Next]_vars

(***************************************************************************)
(* Properties.                                                             *)
(***************************************************************************)

\* What a finished run reports as completed is in the table's file, and stays
\* there over later runs and sessions, until the table is evicted; calls that
\* met on one table are excepted.
CompletedIsKept ==
    \A r \in Runs : LET t == run[r].table IN
        run[r].at = "done" /\ t \notin overlapped /\ file[t] # Emptied =>
            \A x \in run[r].merged : r \in file[t].rows[x]

\* Every selected row goes out in one call, however the rows are cut; only a
\* row that cannot be put in words goes out in none.
RowsAskedOnce ==
    \A r \in Runs : run[r].at = "dispatch" =>
        LET u == run[r].units
            places(x) == {p \in (1..Len(u)) \X (1..MaxBatchSize) : p[2] <= Len(u[p[1]]) /\ u[p[1]][p[2]] = x}
        IN \A x \in Rows : Cardinality(places(x)) = 1
                            \/ (places(x) = {} /\ x \notin run[r].matched \ run[r].lacks)

\* Without a batch size a run makes no more calls than may be under way at
\* once, as long as batches of the largest size suffice for that.
AutoBatchesFit ==
    \A r \in Runs : run[r].at = "dispatch" /\ run[r].how = NoSize
                      /\ Cardinality(run[r].matched) <= run[r].width * MaxBatchSize =>
        Len(run[r].units) <= run[r].width

\* The summary accounts for every selected row once, whatever the answers
\* left out, repeated or made up.
SummaryAddsUp ==
    \A r \in Runs : run[r].at = "done" =>
        Cardinality(run[r].merged) + run[r].failed = Cardinality(run[r].matched)

\* A retry with exists: false gives results only to rows that had none.
RetryTouchesOnlyMissing ==
    [][\A r \in Runs, o \in Owners, x \in Rows :
         run[r].missing /\ r \in array'[o][x] \ array[o][x] =>
            array[o][x] = {} \/ run[r].table \in overlapped]_vars

\* Eviction takes the oldest: when a table's file is emptied, MAX_TABLES - 1
\* younger ones are there, also when they were made in earlier sessions.
YoungestSurvive ==
    [][\A t \in Tables : file[t] # Emptied /\ file'[t] = Emptied =>
         \E k \in 1..Len(born) : born[k] = t
            /\ Cardinality({i \in (k + 1)..Len(born) : file[born[i]] # NoFile}) >= MaxTables - 1]_vars

\* No run waits for nothing: while a task is left its workers are all at
\* work, and when the last answer is in there is none left.
WorkersGoOn ==
    \A r \in Runs : LET u == run[r] IN
        u.at = "dispatch" => \/ u.next = Len(u.units) + 1
                             \/ Cardinality(u.calls) = u.width

\* A run on a table asks for every row once, in no more calls than it may,
\* goes on to the end, accounts for every row and keeps what it was answered,
\* over retries, later sessions and the eviction of older tables.
ResultsAreKept ==
    /\ [](TypeOK /\ RowsAskedOnce /\ AutoBatchesFit /\ WorkersGoOn
             /\ SummaryAddsUp /\ CompletedIsKept)
    /\ RetryTouchesOnlyMissing /\ YoungestSurvive
=============================================================================
