------------------------------- MODULE Hbpkg -------------------------------
(***************************************************************************)
(* tools/hbpkg.c: what install, upgrade and remove do to the package       *)
(* database, the archive cache and the installed files.                    *)
(*                                                                         *)
(* A step is one command or library call whose effect on the disk another  *)
(* hbpkg process, or the next one after a kill, can see; curl, tar and cp  *)
(* first leave a part of what they write.  Names are valid, an archive     *)
(* carries the name it is published under and packages share no file.  The *)
(* commands that only read (search, info, list, audit), update, which      *)
(* fetches the index they read, and build are left out.                    *)
(***************************************************************************)
EXTENDS Integers, Sequences, SequencesExt

CONSTANTS Procs,          \* hbpkg processes
          Pkgs,           \* package names
          Deps,           \* the dependency list in the meta.toml of each
          FileCount,      \* files in each package
          Loads           \* the workloads: [procs, ops, args], args the name lists

\* No package needs itself, directly or not: Layer is a witness.
ASSUME RepositoryAssumption ==
  /\ Deps \in [Pkgs -> Seq(Pkgs)] /\ FileCount \in [Pkgs -> Nat]
  /\ \E Layer \in [Pkgs -> 0 .. 8] : \A p \in Pkgs : \A d \in Range(Deps[p]) : Layer[d] < Layer[p]
  /\ \A w \in Loads : w.procs \subseteq Procs /\ w.args \subseteq Seq(Pkgs) \ {<<>>}

VARIABLES
  db,             \* /var/pkg/installed.db, the names in its records
  tmp,            \* installed.db.tmp
  cache,          \* each archive in the cache: Whole, Cut (a part of it) or None
  stage,          \* the directory each archive is extracted to, likewise
  root,           \* each installed file <<package, number>>, likewise
  lost,           \* history: a write to the database has failed
  crossed,        \* history: packages two processes were installing at once
  proc,           \* the stack of calls of each process; empty when it has ended
  load            \* the workload

vars == <<db, tmp, cache, stage, root, lost, crossed, proc, load>>
disk == <<db, tmp, cache, stage, root, lost>>

Names(d) == Range(d)
Files == UNION {{<<p, n>> : n \in 1 .. FileCount[p]} : p \in Pkgs}

\* A call of cmd_install or cmd_remove: where it is, the names it has left, and
\* for the first of them the dependencies and the files it has left.
Call(at, args) == [at |-> at, args |-> args, deps |-> <<>>, files |-> <<>>]

Init ==
  /\ db = <<>> /\ tmp = <<>> /\ lost = FALSE /\ crossed = {}
  /\ cache = [p \in Pkgs |-> "None"] /\ stage = [p \in Pkgs |-> "None"]
  /\ root = [f \in Files |-> "None"]
  /\ proc = [q \in Procs |-> <<>>]
  /\ load \in Loads

-----------------------------------------------------------------------------
(* Stepping a process *)

Running(q) == proc[q] # <<>>
Top(q) == Last(proc[q])
Pkg(q) == Head(Top(q).args)
At(q, place) == Running(q) /\ Top(q).at = place

Becomes(q, stack) == proc' = [proc EXCEPT ![q] = stack]
Continue(q, call) == Becomes(q, Append(Front(proc[q]), call))
Goto(q, place) == Continue(q, [Top(q) EXCEPT !.at = place])

\* return 1, which every caller passes on.
Fail(q) == Becomes(q, <<>>)

\* The next name of the argument list, or return 0.
NextArg(q, place) ==
  IF Len(Top(q).args) > 1
    THEN Continue(q, Call(place, Tail(Top(q).args)))
    ELSE Becomes(q, Front(proc[q]))

-----------------------------------------------------------------------------
(* install and upgrade *)

\* upgrade calls cmd_install for each name it is given; with none it lists.
cmd_install(q, args) ==
  /\ ~Running(q) /\ "install" \in load.ops
  /\ Becomes(q, <<Call("check", args)>>)
  /\ UNCHANGED <<disk, crossed, load>>

db_pkg_installed(p) == p \in Names(db)

\* q is past the test and has not written the record.
Installing(q, p) == \E c \in Range(proc[q]) : c.at # "check" /\ Head(c.args) = p

Check(q) ==
  /\ At(q, "check")
  /\ \/ /\ db_pkg_installed(Pkg(q)) /\ NextArg(q, "check") /\ UNCHANGED crossed
     \/ /\ ~db_pkg_installed(Pkg(q)) /\ Goto(q, "fetch")
        /\ crossed' = crossed \cup {p \in {Pkg(q)} : \E r \in Procs \ {q} : Installing(r, p)}
  /\ UNCHANGED <<disk, load>>

\* A name in the cache is not fetched again, whole or not.
Fetch(q) ==
  /\ At(q, "fetch")
  /\ Goto(q, IF cache[Pkg(q)] # "None" THEN "extract" ELSE "curl")
  /\ UNCHANGED <<disk, crossed, load>>

\* curl fails before it has written anything, or has the archive in part,
\* another's replaced, and then whole.
Curl(q) ==
  /\ At(q, "curl")
  /\ \/ UNCHANGED cache /\ Fail(q)
     \/ cache' = [cache EXCEPT ![Pkg(q)] = "Cut"] /\ Goto(q, "download")
  /\ UNCHANGED <<db, tmp, stage, root, lost, crossed, load>>

Download(q) ==
  /\ At(q, "download")
  /\ \/ cache' = [cache EXCEPT ![Pkg(q)] = "Whole"] /\ Goto(q, "extract")
     \/ UNCHANGED cache /\ Fail(q)
  /\ UNCHANGED <<db, tmp, stage, root, lost, crossed, load>>

\* extract_hbp into the directory that every process uses for the package: tar
\* replaces what an earlier one has left there.
Extract(q) ==
  /\ At(q, "extract")
  /\ stage' = [stage EXCEPT ![Pkg(q)] = "Cut"] /\ Goto(q, "tar")
  /\ UNCHANGED <<db, tmp, cache, root, lost, crossed, load>>

Tar(q) ==
  /\ At(q, "tar")
  /\ \/ /\ cache[Pkg(q)] = "Whole" /\ Goto(q, "parse")
        /\ IF \E r \in Procs \ {q} : At(r, "tar") /\ Pkg(r) = Pkg(q) THEN UNCHANGED stage
           ELSE stage' = [stage EXCEPT ![Pkg(q)] = "Whole"]
     \/ UNCHANGED stage /\ Fail(q)
  /\ UNCHANGED <<db, tmp, cache, root, lost, crossed, load>>

\* meta_parse_toml and the signature check: the two lists, which may end early in a
\* directory that is being written again.
Lists(p) ==
  LET all == [deps |-> Deps[p], files |-> [n \in 1 .. FileCount[p] |-> n]]
  IN  IF stage[p] = "Whole" THEN {all}
      ELSE {all, [all EXCEPT !.files = <<>>], [deps |-> <<>>, files |-> <<>>]}

Parse(q) ==
  /\ At(q, "parse")
  /\ \/ \E m \in Lists(Pkg(q)) : Continue(q, [Top(q) EXCEPT !.at = "deps", !.deps = m.deps, !.files = m.files])
     \/ stage[Pkg(q)] = "Cut" /\ Fail(q)
  /\ UNCHANGED <<disk, crossed, load>>

\* "Install dependencies first (recursive)": the loop goes on to the next one
\* when the call returns 0.  Faults: a dependency that is skipped ends the loop;
\* the loop does not advance.
Resolve_first(q) ==
  LET c == Top(q) IN
  IF c.deps = <<>> \/ db_pkg_installed(Head(c.deps))
    THEN Goto(q, "copy")
    ELSE Becomes(q, Append(Front(proc[q]), [c EXCEPT !.deps = Tail(@)]) \o <<Call("check", <<Head(c.deps)>>)>>)
Resolve_stuck(q) ==
  LET c == Top(q) IN
  IF c.deps = <<>>
    THEN Goto(q, "copy")
    ELSE Becomes(q, proc[q] \o <<Call("check", <<Head(c.deps)>>)>>)
Resolve(q) ==
  LET c == Top(q)  onward == [c EXCEPT !.deps = Tail(@)] IN
  IF c.deps = <<>> THEN Goto(q, "copy")
  ELSE IF db_pkg_installed(Head(c.deps)) THEN Continue(q, onward)
  ELSE Becomes(q, Front(proc[q]) \o <<onward, Call("check", <<Head(c.deps)>>)>>)

Dependencies(q) ==
  /\ At(q, "deps") /\ Resolve(q)
  /\ UNCHANGED <<disk, crossed, load>>

\* A cp fails: the install ends.  Fault: it goes on with the next file.
CpFails_ignored(q) == Continue(q, [Top(q) EXCEPT !.at = "copy", !.files = Tail(@)])
CpFails(q) == Fail(q)

\* install_files, one cp at a time: it finds no source and fails, or empties the
\* destination.  The answers of the install scripts around it are not looked at.
Copy(q) ==
  LET dst == <<Pkg(q), Head(Top(q).files)>> IN
  /\ At(q, "copy")
  /\ \/ Top(q).files = <<>> /\ Goto(q, "register") /\ UNCHANGED root
     \/ Top(q).files # <<>> /\ root' = [root EXCEPT ![dst] = "Cut"] /\ Goto(q, "cp")
     \/ Top(q).files # <<>> /\ CpFails(q) /\ UNCHANGED root
  /\ UNCHANGED <<db, tmp, cache, stage, lost, crossed, load>>

\* The rest of cp: it copies what it finds, or fails.
Cp(q) ==
  LET dst == <<Pkg(q), Head(Top(q).files)>> IN
  /\ At(q, "cp")
  /\ \/ /\ root' = [root EXCEPT ![dst] = stage[Pkg(q)]]
        /\ Continue(q, [Top(q) EXCEPT !.at = "copy", !.files = Tail(@)])
     \/ CpFails(q) /\ UNCHANGED root
  /\ UNCHANGED <<db, tmp, cache, stage, lost, crossed, load>>

\* db_pkg_add: the database cannot be opened, or a record is appended; whether
\* the write succeeded is not looked at.
Register(q) ==
  /\ At(q, "register")
  /\ \/ db' = Append(db, Pkg(q)) /\ NextArg(q, "check") /\ UNCHANGED lost
     \/ UNCHANGED <<db, lost>> /\ Fail(q)
     \/ UNCHANGED db /\ NextArg(q, "check") /\ lost' = TRUE
  /\ UNCHANGED <<tmp, cache, stage, root, crossed, load>>

-----------------------------------------------------------------------------
(* remove *)

cmd_remove(q, args) ==
  /\ ~Running(q) /\ "remove" \in load.ops
  /\ Becomes(q, <<Call("get", args)>>)
  /\ UNCHANGED <<disk, crossed, load>>

Get(q) ==
  /\ At(q, "get")
  /\ IF db_pkg_installed(Pkg(q)) THEN Goto(q, "rewrite") ELSE Fail(q)
  /\ UNCHANGED <<disk, crossed, load>>

\* db_pkg_remove writes every other record to a second file and renames that
\* over the database; the answers of the writes are not looked at.  Fault: the
\* copy ends at the record.
Kept_until(p) == SubSeq(db, 1, SelectInSeq(db, LAMBDA r : r = p) - 1)
Kept(p) == SelectSeq(db, LAMBDA r : r # p)

Rewrite(q) ==
  /\ At(q, "rewrite")
  /\ \/ /\ db_pkg_installed(Pkg(q)) /\ Goto(q, "rename")
        /\ \E n \in 0 .. Len(Kept(Pkg(q))) :
             tmp' = SubSeq(Kept(Pkg(q)), 1, n) /\ lost' = (lost \/ n < Len(Kept(Pkg(q))))
     \/ ~db_pkg_installed(Pkg(q)) /\ tmp' = <<>> /\ Fail(q) /\ UNCHANGED lost
  /\ UNCHANGED <<db, cache, stage, root, crossed, load>>

\* rename may fail, and nobody looks; the files of the package stay.
Rename(q) ==
  /\ At(q, "rename") /\ NextArg(q, "get")
  /\ \/ db' = tmp /\ tmp' = <<>>
     \/ UNCHANGED <<db, tmp>>
  /\ UNCHANGED <<cache, stage, root, lost, crossed, load>>

-----------------------------------------------------------------------------
(* The world around *)

Kill(q) == Running(q) /\ Fail(q) /\ UNCHANGED <<disk, crossed, load>>

Step(q) ==
  \/ Check(q) \/ Fetch(q) \/ Curl(q) \/ Download(q) \/ Extract(q) \/ Tar(q) \/ Parse(q)
  \/ Dependencies(q) \/ Copy(q) \/ Cp(q) \/ Register(q)
  \/ Get(q) \/ Rewrite(q) \/ Rename(q)

Next ==
  \/ \E q \in load.procs : Step(q) \/ Kill(q)
  \/ \E q \in load.procs, args \in load.args : cmd_install(q, args) \/ cmd_remove(q, args)

\* A process that is not killed goes on running.
Spec == Init /\ [][Next]_vars /\ \A q \in Procs : WF_vars(Step(q))

-----------------------------------------------------------------------------
(* Properties *)

\* "Install dependencies first": whatever fails or is killed on the way, a
\* package is recorded only when all it needs is recorded, two installs at once
\* included, as long as every write to the database succeeds.  Left out is a package
\* that two processes were installing at once: they share its extraction directory.
DepsFirst ==
  [][lost \/ \A p \in Names(db') \ (Names(db) \cup crossed) : Range(Deps[p]) \subseteq Names(db)]_db

\* A recorded package has all its files in place, whole, and one record: although
\* files are copied one by one, each cut short on the way and again by an install
\* that is repeated, and although the test at the start of cmd_install is dependencies
\* old when the record is written.  Again but for a package that two processes were
\* installing at once.
RecordedIsComplete ==
  \A p \in Names(db) \ crossed :
    /\ \A n \in 1 .. FileCount[p] : root[<<p, n>>] = "Whole"
    /\ Cardinality({i \in DOMAIN db : db[i] = p}) = 1

\* A remove, killed anywhere, takes the records of one name or nothing, and an
\* install adds one at the end: the database is never seen half written, again as
\* long as every write succeeds.
StepwiseDb ==
  [][\/ lost
     \/ Len(db') = Len(db) + 1 /\ Front(db') = db
     \/ \E p \in Names(db) : db' = SelectSeq(db, LAMBDA r : r # p)]_db

\* Every command ends, however the dependencies share packages.
CommandEnds == \A q \in Procs : Running(q) ~> ~Running(q)

=============================================================================
