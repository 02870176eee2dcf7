---------------------------- MODULE ProjectSetup ----------------------------
(***************************************************************************)
(* A project's files and the processes that make and open them: `init`     *)
(* (internal/cli/init.go), the search for the project and the schema that  *)
(* every command applies to its database (internal/config, openDB,         *)
(* db.Open), the registry of the multi-project daemon (internal/daemon),   *)
(* and the config table, written by POST /api/config and `config set` and  *)
(* read once by `orchestrator start`.                                      *)
(*                                                                         *)
(* One system call on .tillr.json is one step, and so is one statement of  *)
(* the schema or a group of them that later statements treat alike; other  *)
(* processes run in between.  Any step may fail, and any process may die.  *)
(***************************************************************************)
EXTENDS Settings, FiniteSets, Sequences

CONSTANTS
    Dir,        \* directories ...
    Path,       \* ... each with the way up from it to the root
    Name,       \* names of projects ...
    Slug,       \* ... and the ids `slug` makes of them
    Base,       \* the last element of a directory's path
    Job,        \* command lines
    Body,       \* what is posted to /api/config
    Proc, Call, \* processes, and requests to servers, at a time
    First,      \* what the directories may hold at first, and ...
    FirstName, FirstTable, \* ... what a project among them contains
    None,
    MaxLaunches, MaxPosts, MaxFaults, MaxRemovals \* bounds: events

Flag == [max : Int, poll : Int, dry : BOOLEAN]
Entry == [slug : STRING, dir : Dir]

ASSUME SetupAssumption ==
    /\ Path \in [Dir -> Seq(Dir)]
    /\ Slug \in [Name -> STRING]
    /\ Base \in [Dir -> STRING]
    /\ Job \subseteq [op : {"init", "serve", "start", "set", "daemon"},
                      dir : Dir, name : Name, flags : Flag,
                      body : UNION {[K -> Text] : K \in SUBSET Key},
                      list : Seq(Entry)]
    /\ \A j \in Job : j.op = "set" => Cardinality(DOMAIN j.body) = 1
    /\ Body \subseteq UNION {[K -> Text] : K \in (SUBSET Key) \ {{}}}
    /\ First \subseteq [Dir -> {"nothing", "old", "project"}]
    /\ FirstName \in Name /\ FirstTable \in Table
    /\ None \notin Dir /\ None \notin Call /\ None \notin Proc /\ None \notin Name
    /\ {MaxLaunches, MaxPosts, MaxFaults, MaxRemovals} \subseteq Nat

VARIABLES
    file,     \* .tillr.json: "absent", "empty" or "whole"
    has,      \* what there is of the schema in tillr.db
    rows,     \* the names in `projects`
    conf,     \* the table `config`
    pc,       \* where each process stands ...
    job,      \* ... what it was told to do ...
    at,       \* ... and the directory it works on
    order,    \* the registry of a daemon: the slugs so far ...
    handles,  \* ... the directory whose database each slug leads to ...
    open,     \* ... and the connections that have not been closed
    settings, \* the settings a daemon of the orchestrator runs with
    host,     \* the server that handles a request ...
    left,     \* ... and the pairs it has yet to store
    made,     \* history: the name an init has reported as initialized
    raced,    \* two inits were past the check at once
    kept,     \* .tillr.json was deleted and a database with a row was not
    told,     \* the latest text each config key was given ...
    doubt,    \* ... and those that lost a write or had two at once
    spent     \* launches, posts, faults and removals so far

diskVars    == <<file, has, rows>>
procVars    == <<pc, job, at>>
regVars     == <<order, handles, open>>
callVars    == <<host, left>>
initVars    == <<made, raced, kept>>
tableVars   == <<conf, told, doubt>>
vars        == <<diskVars, tableVars, procVars, regVars, settings, callVars,
                 initVars, spent>>

-----------------------------------------------------------------------------
(* Values.                                                                  *)

\* The tables of the schema that matter here, "rest" for all others, and the
\* column of `features` that a later version added.
Schema == {"projects", "features", "persona", "rest"}

\* A database from before that column.
OldSchema == Schema \ {"persona"}

\* f with the pairs of g over it.
Over(f, g) == [x \in DOMAIN f |-> IF x \in DOMAIN g THEN g[x] ELSE f[x]]

Nothing == [k \in {} |-> None]

NoJob == [op |-> "none", dir |-> None, name |-> None,
          flags |-> [max |-> 0, poll |-> 0, dry |-> FALSE],
          body |-> Nothing, list |-> <<>>]

NoSettings == [max |-> 0, poll |-> 0, timeout |-> 0, binary |-> Empty,
               dry |-> FALSE]

Blank == [k \in Key |-> Unset]

Event == {"launches", "posts", "faults", "removals"}

Limit == [launches |-> MaxLaunches, posts |-> MaxPosts,
          faults |-> MaxFaults, removals |-> MaxRemovals]

Spend(e) ==
    /\ spent[e] < Limit[e]
    /\ spent' = [spent EXCEPT ![e] = @ + 1]

\* Where a process stands in `init` once it is past the check ...
Past == {"truncate", "write", "tables", "rest", "insert", "report"}

\* ... and in NewRegistry.
Registering == {"entry", "load", "tables", "rest", "get"}

\* What goes on until it is stopped.
Up == {"serving", "running", "listening"}

Initializing(p, d) == job[p].op = "init" /\ pc[p] \in Past /\ at[p] = d

-----------------------------------------------------------------------------
(* Directories at first: nothing there, a project made by an older version,  *)
(* or a project.                                                            *)

Init ==
    /\ \E is \in First :
          /\ file = [d \in Dir |->
                       IF is[d] = "nothing" THEN "absent" ELSE "whole"]
          /\ has = [d \in Dir |-> CASE is[d] = "nothing" -> {}
                                    [] is[d] = "old"     -> OldSchema
                                    [] is[d] = "project" -> Schema]
          /\ rows = [d \in Dir |->
                       IF is[d] = "nothing" THEN {} ELSE {FirstName}]
          /\ conf = [d \in Dir |->
                       IF is[d] = "project" THEN FirstTable ELSE Blank]
    /\ pc = [p \in Proc |-> "idle"]
    /\ job = [p \in Proc |-> NoJob]
    /\ at = [p \in Proc |-> None]
    /\ order = [p \in Proc |-> <<>>]
    /\ handles = [p \in Proc |-> Nothing]
    /\ open = [p \in Proc |-> {}]
    /\ settings = [p \in Proc |-> NoSettings]
    /\ host = [c \in Call |-> None]
    /\ left = [c \in Call |-> Nothing]
    /\ made = [d \in Dir |-> None]
    /\ raced = [d \in Dir |-> FALSE]
    /\ kept = [d \in Dir |-> FALSE]
    /\ told = conf
    /\ doubt = [d \in Dir |-> {}]
    /\ spent = [e \in Event |-> 0]

-----------------------------------------------------------------------------
(* How a process starts, goes on and ends.                                  *)

Goes(p, s) == pc' = [pc EXCEPT ![p] = s]

FirstStep(op) ==
    CASE op = "init" -> "stat"
      [] op = "daemon" -> "list"
      [] OTHER -> "find"

Launch(p, j) ==
    /\ pc[p] = "idle"
    /\ Spend("launches")
    /\ Goes(p, FirstStep(j.op))
    /\ job' = [job EXCEPT ![p] = j]
    /\ at' = [at EXCEPT ![p] = IF j.op = "init" THEN j.dir ELSE None]
    /\ UNCHANGED <<diskVars, tableVars, regVars, settings, callVars, initVars>>

\* The requests a process handles, and what of them is still to be stored.
HandledBy(p) == {c \in Call : host[c] = p}

Owed(p) == UNION {DOMAIN left[c] : c \in HandledBy(p)}

\* A process is gone, whatever it was doing; so are its requests.
Gone(p) ==
    /\ Goes(p, "idle")
    /\ job' = [job EXCEPT ![p] = NoJob]
    /\ at' = [at EXCEPT ![p] = None]
    /\ order' = [order EXCEPT ![p] = <<>>]
    /\ handles' = [handles EXCEPT ![p] = Nothing]
    /\ open' = [open EXCEPT ![p] = {}]
    /\ settings' = [settings EXCEPT ![p] = NoSettings]
    /\ host' = [c \in Call |-> IF host[c] = p THEN None ELSE host[c]]
    /\ left' = [c \in Call |-> IF host[c] = p THEN Nothing ELSE left[c]]
    /\ doubt' = [d \in Dir |->
                    IF d = at[p] THEN doubt[d] \union Owed(p) ELSE doubt[d]]
    /\ UNCHANGED <<conf, told>>

-----------------------------------------------------------------------------
(* The registry of the multi-project daemon.                                *)

\* An entry without a slug gets its directory's name.
Named(e) == [e EXCEPT !.slug = IF @ = "" THEN Base[e.dir] ELSE @]

Entries(p) == [i \in DOMAIN job[p].list |-> Named(job[p].list[i])]

Current(p) == Entries(p)[Len(order[p]) + 1]

Connection(p) == <<Current(p).slug, at[p]>>

\* Mutation: an entry that fails leaves the earlier ones open.
NotClosed(p) == open[p]

\* Registry.Close closes what is in the map; db.Open, when it fails, does not
\* close the connection it has made.
LeftOpen(p) ==
    {x \in open[p] : ~ (x[1] \in DOMAIN handles[p] /\ handles[p][x[1]] = x[2])}

\* NewRegistry fails: the daemon does not start.
RegistryFails(p) ==
    /\ Goes(p, "failed")
    /\ open' = [open EXCEPT ![p] = IF pc[p] = "get"
                                  THEN LeftOpen(p) \ {Connection(p)}
                                  ELSE LeftOpen(p)]
    /\ UNCHANGED <<tableVars, job, at, order, handles, settings, callVars>>

\* A step fails, with nothing of it done.
GivesUp(p) ==
    IF job[p].op = "daemon" /\ pc[p] \in Registering
    THEN RegistryFails(p)
    ELSE Gone(p)

\* Mutation: entries that differ may have one slug.
SomehowDistinct(es) ==
    \A i, j \in DOMAIN es : es[i] = es[j] => i = j

\* The slugs of a list must differ.
Distinct(es) ==
    \A i, j \in DOMAIN es : es[i].slug = es[j].slug => i = j

\* LoadConfig of the daemon.
ListIsRead(p) ==
    /\ pc[p] = "list"
    /\ IF Entries(p) # <<>> /\ Distinct(Entries(p))
       THEN /\ Goes(p, "entry")
            /\ UNCHANGED <<tableVars, job, at, regVars, settings, callVars>>
       ELSE Gone(p)
    /\ UNCHANGED <<diskVars, initVars, spent>>

\* openProject looks for the entry's .tillr.json.
EntryIsFound(p) ==
    /\ pc[p] = "entry"
    /\ IF file[Current(p).dir] # "absent"
       THEN /\ Goes(p, "load")
            /\ at' = [at EXCEPT ![p] = Current(p).dir]
            /\ UNCHANGED <<tableVars, job, regVars, settings, callVars>>
       ELSE RegistryFails(p)
    /\ UNCHANGED <<diskVars, initVars, spent>>

\* GetProject: an entry without a project row is refused.
EntryIsRegistered(p) ==
    /\ pc[p] = "get"
    /\ IF rows[at[p]] # {}
       THEN /\ order' = [order EXCEPT ![p] = Append(@, Current(p).slug)]
            /\ handles' = [handles EXCEPT ![p] =
                 [s \in DOMAIN @ \union {Current(p).slug} |->
                    IF s = Current(p).slug THEN at[p] ELSE @[s]]]
            /\ Goes(p, IF Len(order[p]) + 1 = Len(Entries(p))
                        THEN "listening" ELSE "entry")
            /\ UNCHANGED <<tableVars, job, at, open, settings, callVars>>
       ELSE RegistryFails(p)
    /\ UNCHANGED <<diskVars, initVars, spent>>

\* The daemon that could not start returns its error and exits.
Leave(p) ==
    /\ pc[p] = "failed"
    /\ Gone(p)
    /\ UNCHANGED <<diskVars, initVars, spent>>

-----------------------------------------------------------------------------
(* .tillr.json.                                                             *)

\* Mutation: it writes over what is there.
NeverInitialized(d) == FALSE

\* init refuses a directory that has one ...
Initialized(d) == file[d] # "absent"

Stat(p) ==
    /\ pc[p] = "stat"
    /\ IF ~ Initialized(at[p])
       THEN /\ Goes(p, "truncate")
            /\ raced' = [raced EXCEPT ![at[p]] =
                   @ \/ \E q \in Proc \ {p} : Initializing(q, at[p])]
            /\ UNCHANGED <<tableVars, job, at, regVars, settings, callVars>>
       ELSE /\ Gone(p)
            /\ UNCHANGED raced
    /\ UNCHANGED <<diskVars, made, kept, spent>>

\* ... and writes its own in two steps (os.WriteFile).
Truncate(p) ==
    /\ pc[p] = "truncate"
    /\ file' = [file EXCEPT ![at[p]] = "empty"]
    /\ Goes(p, "write")
    /\ UNCHANGED <<has, rows, tableVars, job, at, regVars, settings, callVars,
                   initVars, spent>>

Write(p) ==
    /\ pc[p] = "write"
    /\ file' = [file EXCEPT ![at[p]] = "whole"]
    /\ Goes(p, "tables")
    /\ UNCHANGED <<has, rows, tableVars, job, at, regVars, settings, callVars,
                   initVars, spent>>

\* The directory with a .tillr.json that is nearest to d.
IsRoot(d, r) ==
    \E i \in DOMAIN Path[d] :
        /\ Path[d][i] = r
        /\ file[r] # "absent"
        /\ \A j \in 1 .. (i - 1) : file[Path[d][j]] = "absent"

\* The walk upwards, one Stat for each directory, is one step: a file made or
\* deleted on the way only changes which project, if any, p goes on with.
FindProjectRoot(p) ==
    /\ pc[p] = "find"
    /\ \/ \E r \in Dir :
            /\ IsRoot(job[p].dir, r)
            /\ at' = [at EXCEPT ![p] = r]
            /\ Goes(p, "load")
            /\ UNCHANGED <<tableVars, job, regVars, settings, callVars>>
       \/ /\ \A r \in Dir : ~ IsRoot(job[p].dir, r)
          /\ Gone(p)
    /\ UNCHANGED <<diskVars, initVars, spent>>

\* What is not whole is not JSON.  Then db.Open makes its connection.
Load(p) ==
    /\ pc[p] = "load"
    /\ IF file[at[p]] = "whole"
       THEN /\ Goes(p, "tables")
            /\ open' = IF job[p].op = "daemon"
                       THEN [open EXCEPT ![p] = @ \union {Connection(p)}]
                       ELSE open
            /\ UNCHANGED <<tableVars, job, at, order, handles, settings,
                           callVars>>
       ELSE GivesUp(p)
    /\ UNCHANGED <<diskVars, initVars, spent>>

-----------------------------------------------------------------------------
(* db.Open: CREATE IF NOT EXISTS, statement after statement.                *)

\* The database file, with the pragmas, and the first two tables.  A table
\* that is there keeps the columns it has.
CreateTables(p) ==
    /\ pc[p] = "tables"
    /\ has' = [has EXCEPT ![at[p]] = @ \union {"projects", "features"} \union
                 (IF "features" \in @ THEN {} ELSE {"persona"})]
    /\ Goes(p, "rest")
    /\ UNCHANGED <<file, rows, tableVars, job, at, regVars, settings, callVars,
                   initVars, spent>>

AfterOpen(op) ==
    CASE op = "init"  -> "insert"
      [] op = "serve" -> "serving"
      [] op = "start" -> "configure"
      [] op = "set"   -> "set"
      [] OTHER        -> "get"

\* The index on target_persona, which needs the column; all that is left; and
\* migrate, which would add the column: by now it is there.
CreateRest(p) ==
    /\ pc[p] = "rest"
    /\ IF "persona" \in has[at[p]]
       THEN /\ has' = [has EXCEPT ![at[p]] = @ \union {"rest", "persona"}]
            /\ Goes(p, AfterOpen(job[p].op))
            /\ UNCHANGED <<tableVars, job, at, regVars, settings, callVars>>
       ELSE /\ GivesUp(p)
            /\ UNCHANGED has
    /\ UNCHANGED <<file, rows, initVars, spent>>

-----------------------------------------------------------------------------
(* What each command does with its database.                                *)

\* CreateProject: the id made of the name must be new.
CreateProject(p) ==
    /\ pc[p] = "insert"
    /\ IF \A n \in rows[at[p]] : Slug[n] # Slug[job[p].name]
       THEN /\ rows' = [rows EXCEPT ![at[p]] = @ \union {job[p].name}]
            /\ Goes(p, "report")
            /\ UNCHANGED <<tableVars, job, at, regVars, settings, callVars>>
       ELSE /\ Gone(p)
            /\ UNCHANGED rows
    /\ UNCHANGED <<file, has, initVars, spent>>

\* It reads the row back, and init reports success.
Report(p) ==
    /\ pc[p] = "report"
    /\ made' = [made EXCEPT ![at[p]] = job[p].name]
    /\ Gone(p)
    /\ UNCHANGED <<diskVars, raced, kept, spent>>

\* `orchestrator start` reads the table once, with its flags.
Configure(p) ==
    /\ pc[p] = "configure"
    /\ settings' = [settings EXCEPT ![p] =
                       Effective(job[p].flags, conf[at[p]])]
    /\ Goes(p, "running")
    /\ UNCHANGED <<diskVars, tableVars, job, at, regVars, callVars, initVars,
                   spent>>

\* Mutation: the first pair that is stored ends the request.
FirstOnly(body, k) == Nothing

\* What is left of a body, or nothing, when k is stored.
Without(body, k) == [x \in DOMAIN body \ {k} |-> body[x]]

\* The keys a request to d has yet to store.
Pending(c, d) ==
    IF host[c] # None /\ at[host[c]] = d THEN DOMAIN left[c] ELSE {}

\* The texts of body are now what the keys of d should hold; a key that
\* somebody else is about to write may end up with either.
IsTold(c, d, body) ==
    /\ told' = [told EXCEPT ![d] = Over(@, body)]
    /\ doubt' = [doubt EXCEPT ![d] =
           (@ \ DOMAIN body) \union
              {k \in DOMAIN body : \E x \in Call \ {c} : k \in Pending(x, d)}]

\* POST /api/config arrives at a server ...
Accept(c, p, body) ==
    /\ host[c] = None
    /\ pc[p] = "serving"
    /\ Spend("posts")
    /\ host' = [host EXCEPT ![c] = p]
    /\ left' = [left EXCEPT ![c] = body]
    /\ IsTold(c, at[p], body)
    /\ UNCHANGED <<diskVars, conf, procVars, regVars, settings, initVars>>

\* ... which stores pair after pair, in any order (Go's range over a map),
\* and answers when none is left ...
Put(c) ==
    /\ host[c] # None
    /\ \E k \in DOMAIN left[c] :
         LET d == at[host[c]] IN
         /\ conf' = [conf EXCEPT ![d][k] = left[c][k]]
         /\ left' = [left EXCEPT ![c] = Without(@, k)]
    /\ host' = IF left'[c] = Nothing THEN [host EXCEPT ![c] = None] ELSE host
    /\ UNCHANGED <<diskVars, told, doubt, procVars, regVars, settings,
                   initVars, spent>>

\* ... or stops at the first that fails, with the ones before it stored.
PutFails(c) ==
    /\ host[c] # None
    /\ Spend("faults")
    /\ doubt' = [doubt EXCEPT ![at[host[c]]] = @ \union DOMAIN left[c]]
    /\ host' = [host EXCEPT ![c] = None]
    /\ left' = [left EXCEPT ![c] = Nothing]
    /\ UNCHANGED <<diskVars, conf, told, procVars, regVars, settings,
                   initVars>>

\* `tillr config set` stores one pair and is done.
ConfigSet(p) ==
    /\ pc[p] = "set"
    /\ conf' = [conf EXCEPT ![at[p]] = Over(@, job[p].body)]
    /\ IsTold(None, at[p], job[p].body)
    /\ Goes(p, "idle")
    /\ job' = [job EXCEPT ![p] = NoJob]
    /\ at' = [at EXCEPT ![p] = None]
    /\ UNCHANGED <<diskVars, regVars, settings, callVars, initVars, spent>>

-----------------------------------------------------------------------------
(* What happens to processes and files.                                     *)

\* A signal: a daemon exits at once; a server gives its requests five
\* seconds, which is some of the steps above.
Stop(p) ==
    /\ pc[p] \in Up
    /\ Gone(p)
    /\ UNCHANGED <<diskVars, initVars, spent>>

\* A step fails, or the process dies before it.
Fails(p) ==
    /\ pc[p] \notin Up \union {"idle", "failed"}
    /\ Spend("faults")
    /\ GivesUp(p) \/ Gone(p)
    /\ UNCHANGED <<diskVars, initVars>>

\* People delete files of a project when nothing runs.
Quiet == \A p \in Proc : pc[p] = "idle"

RemoveConfig(d) ==
    /\ Quiet
    /\ file[d] # "absent"
    /\ Spend("removals")
    /\ file' = [file EXCEPT ![d] = "absent"]
    /\ made' = [made EXCEPT ![d] = None]
    /\ raced' = [raced EXCEPT ![d] = FALSE]
    /\ kept' = [kept EXCEPT ![d] = rows[d] # {}]
    /\ UNCHANGED <<has, rows, tableVars, procVars, regVars, settings, callVars>>

RemoveDatabase(d) ==
    /\ Quiet
    /\ has[d] # {}
    /\ Spend("removals")
    /\ has' = [has EXCEPT ![d] = {}]
    /\ rows' = [rows EXCEPT ![d] = {}]
    /\ conf' = [conf EXCEPT ![d] = Blank]
    /\ told' = [told EXCEPT ![d] = Blank]
    /\ doubt' = [doubt EXCEPT ![d] = {}]
    /\ made' = [made EXCEPT ![d] = None]
    /\ raced' = [raced EXCEPT ![d] = FALSE]
    /\ kept' = [kept EXCEPT ![d] = FALSE]
    /\ UNCHANGED <<file, procVars, regVars, settings, callVars>>

-----------------------------------------------------------------------------

Next ==
    \/ \E p \in Proc :
          \/ \E j \in Job : Launch(p, j)
          \/ ListIsRead(p) \/ EntryIsFound(p) \/ EntryIsRegistered(p) \/ Leave(p)
          \/ Stat(p) \/ Truncate(p) \/ Write(p)
          \/ FindProjectRoot(p) \/ Load(p)
          \/ CreateTables(p) \/ CreateRest(p)
          \/ CreateProject(p) \/ Report(p) \/ Configure(p) \/ ConfigSet(p)
          \/ Stop(p) \/ Fails(p)
    \/ \E c \in Call :
          \/ \E p \in Proc, b \in Body : Accept(c, p, b)
          \/ Put(c) \/ PutFails(c)
    \/ \E d \in Dir : RemoveConfig(d) \/ RemoveDatabase(d)

Spec == Init /\ [][Next]_vars

-----------------------------------------------------------------------------
(* The inductive invariant.                                                 *)

Settled == [max : Int, poll : Int, timeout : Int, binary : Text \union {Unset},
            dry : BOOLEAN]

Bodies == UNION {[K -> Text] : K \in SUBSET Key}

Step == {"idle", "stat", "find", "list", "configure", "set", "failed"}
          \union Past \union Registering \union Up

TypeOK ==
    /\ file \in [Dir -> {"absent", "empty", "whole"}]
    /\ has \in [Dir -> SUBSET Schema]
    /\ rows \in [Dir -> SUBSET Name]
    /\ conf \in [Dir -> Table]
    /\ pc \in [Proc -> Step]
    /\ job \in [Proc -> Job \union {NoJob}]
    /\ at \in [Proc -> Dir \union {None}]
    /\ order \in [Proc -> Seq(STRING)]
    /\ DOMAIN handles = Proc
    /\ open \in [Proc -> SUBSET (STRING \X Dir)]
    /\ settings \in [Proc -> Settled]
    /\ host \in [Call -> Proc \union {None}]
    /\ left \in [Call -> Bodies]
    /\ made \in [Dir -> Name \union {None}]
    /\ raced \in [Dir -> BOOLEAN]
    /\ kept \in [Dir -> BOOLEAN]
    /\ told \in [Dir -> Table]
    /\ doubt \in [Dir -> SUBSET Key]
    /\ spent \in [Event -> Nat]

\* Who stands where, and works on which directory.
StepsFit ==
    \A p \in Proc :
        /\ pc[p] \in {"stat", "truncate", "write", "insert", "report"} =>
              job[p].op = "init"
        /\ pc[p] \in {"list", "entry", "get", "listening", "failed"} =>
              job[p].op = "daemon"
        /\ pc[p] \in {"find", "configure", "running", "serving", "set"} =>
              job[p].op \notin {"init", "daemon"}
        /\ pc[p] = "load" => job[p].op # "init"
        /\ pc[p] = "idle" => at[p] = None /\ job[p] = NoJob
        /\ pc[p] # "idle" => job[p] \in Job
        /\ pc[p] \notin {"idle", "find", "list", "entry", "failed"} =>
              at[p] \in Dir

\* Whoever uses a database has gone through its schema.
UsersHaveSchema ==
    \A p \in Proc :
        /\ pc[p] = "rest" => {"projects", "features"} \subseteq has[at[p]]
        /\ pc[p] \in {"insert", "report", "get", "serving", "configure",
                       "running", "set"} => has[at[p]] = Schema

\* Unless two inits have raced, one works alone, on a project that has not
\* been reported, with its own file and with no row but its own.
OneInit ==
    \A d \in Dir : ~ raced[d] =>
        /\ \A p, q \in Proc :
              Initializing(p, d) /\ Initializing(q, d) => p = q
        /\ \A p \in Proc : Initializing(p, d) =>
              /\ made[d] = None
              /\ pc[p] \in {"tables", "rest", "insert", "report"} =>
                    file[d] = "whole"
              /\ pc[p] # "report" => kept[d] \/ rows[d] = {}
              /\ pc[p] = "report" =>
                    /\ job[p].name \in rows[d]
                    /\ kept[d] \/ rows[d] = {job[p].name}
        /\ file[d] = "absent" => made[d] = None /\ (kept[d] \/ rows[d] = {})

\* What a registry has after its first n entries.
Registered(p, n) ==
    LET es == Entries(p) IN
    /\ order[p] = [i \in 1 .. n |-> es[i].slug]
    /\ DOMAIN handles[p] = {es[i].slug : i \in 1 .. n}
    /\ \A i \in 1 .. n :
          /\ handles[p][es[i].slug] = es[i].dir
          /\ has[es[i].dir] = Schema
          /\ rows[es[i].dir] # {}

Connections(p, n) ==
    {<<Entries(p)[i].slug, Entries(p)[i].dir>> : i \in 1 .. n}

RegistryGrows ==
    \A p \in Proc :
        /\ job[p].op # "daemon" \/ pc[p] = "list" =>
              order[p] = <<>> /\ handles[p] = Nothing /\ open[p] = {}
        /\ job[p].op = "daemon" /\ pc[p] # "list" =>
              LET n == Len(order[p]) IN
              /\ Distinct(Entries(p))
              /\ Registered(p, n)
              /\ pc[p] = "listening" => n = Len(Entries(p))
              /\ pc[p] # "listening" => n < Len(Entries(p))
              /\ pc[p] \in {"load", "tables", "rest", "get"} =>
                    at[p] = Current(p).dir
              /\ pc[p] \in {"entry", "load", "listening"} =>
                    open[p] = Connections(p, n)
              /\ pc[p] \in {"tables", "rest", "get"} =>
                    open[p] = Connections(p, n + 1)
              /\ pc[p] = "failed" =>
                    open[p] \subseteq {<<Current(p).slug, Current(p).dir>>}

\* A request is handled by a server that is up, and has something to store.
CallsAreHandled ==
    \A c \in Call :
        /\ host[c] # None => pc[host[c]] = "serving" /\ left[c] # Nothing
        /\ host[c] = None => left[c] = Nothing

\* Where there is no doubt, what is still to be stored is the latest.
PendingIsTold ==
    \A d \in Dir, c \in Call :
        \A k \in Pending(c, d) \ doubt[d] : left[c][k] = told[d][k]

Consistent ==
    TypeOK /\ StepsFit /\ UsersHaveSchema /\ OneInit /\ RegistryGrows
    /\ CallsAreHandled /\ PendingIsTold

-----------------------------------------------------------------------------
(* Properties.                                                              *)

\* After an init has reported success the project is whole: its .tillr.json,
\* the schema with its later column, and one row, with the name init was
\* given; and it stays whole whatever other commands, failing ones included,
\* do in the directory.  Excepted: two inits past the check at once, and a
\* database that was there before (cli/init.go, db.Open).
InitHonest ==
    \A d \in Dir : made[d] # None /\ ~ raced[d] =>
        /\ file[d] = "whole"
        /\ has[d] = Schema
        /\ made[d] \in rows[d]
        /\ ~ kept[d] => rows[d] = {made[d]}

\* A multi-project daemon listens only with every project of its list
\* registered, in the order of the list, each slug leading to its own
\* directory's database, which is whole and has a project; one that fails to
\* start has closed all but what the failing db.Open left behind
\* (daemon/server.go, NewRegistry).
RegistryWhole ==
    \A p \in Proc :
        /\ pc[p] = "listening" =>
              LET es == Entries(p) IN
              /\ order[p] = [i \in DOMAIN es |-> es[i].slug]
              /\ DOMAIN handles[p] = {es[i].slug : i \in DOMAIN es}
              /\ \A i \in DOMAIN es :
                    /\ handles[p][es[i].slug] = es[i].dir
                    /\ has[es[i].dir] = Schema
                    /\ rows[es[i].dir] # {}
              /\ open[p] = {<<es[i].slug, es[i].dir>> : i \in DOMAIN es}
        /\ pc[p] = "failed" =>
              open[p] \subseteq {<<Current(p).slug, Current(p).dir>>}

\* It is certain what a key of the table should hold: no write of it was
\* lost or had another one beside it, and none is to come.
Sure(d, k) == k \notin doubt[d] /\ \A c \in Call : k \notin Pending(c, d)

\* A key holds the text it was given last, whichever other requests,
\* commands, failures and deaths there were; a request that failed half way
\* leaves only the keys it did not reach in doubt, until they are given
\* anew (handleConfig, cli/config.go).
PostsAreWhole ==
    \A d \in Dir, k \in Key : Sure(d, k) => conf[d][k] = told[d][k]

\* A number of units, where it is more than none and an int64 can hold it.
Fits(n, unit) == n * unit < Half /\ n * unit >= - Half

Units(n, unit, default) == IF n > 0 THEN n * unit ELSE default

\* The poll intervals that the flags f and the text v in the table ask for; 0
\* if neither does.
Intervals(f, v) ==
    LET asked == {n \in {f.poll} : n > 0} \union {Atoi[w] : w \in {v} \cap DOMAIN Atoi}
    IN  IF asked = {} THEN {0} ELSE asked

\* What the settings s owe to the flags f and to a table, for the keys that
\* are certain.
Honours(s, f, t, sure) ==
    /\ s.max > 0 /\ s.poll > 0 /\ s.timeout > 0 /\ s.binary # Empty
    /\ f.max > 0 => s.max = f.max
    /\ f.max <= 0 /\ "max-parallelism" \in sure =>
          LET v == t["max-parallelism"] IN
          s.max = IF IsNumber(v) THEN Units(Atoi[v], 1, 1) ELSE 1
    /\ "poll-interval-sec" \in sure =>
          LET asked == Intervals(f, t["poll-interval-sec"]) IN
          (\A n \in asked : Fits(n, Second)) =>
              s.poll \in {Units(n, Second, 5 * Second) : n \in asked}
    /\ "worker-timeout-min" \in sure =>
          LET v == t["worker-timeout-min"]
              n == IF IsNumber(v) THEN Atoi[v] ELSE 0 IN
          Fits(n, Minute) => s.timeout = Units(n, Minute, 60 * Minute)
    /\ "claude-binary" \in sure =>
          s.binary = IF t["claude-binary"] = Empty THEN Unset
                     ELSE t["claude-binary"]
    /\ f.dry => s.dry
    /\ ~ f.dry /\ "dry-run" \in sure =>
          s.dry = (t["dry-run"] \in True)

\* `orchestrator start` runs with what it was told: positive settings; the
\* flags, and what people last gave each key, over the defaults, also when
\* requests are being handled or were cut short.  The poll interval is one
\* that the flag or the table asks for (FlagsComeFirst says which); a number
\* whose duration does not fit an int64 promises no more than a positive one
\* (LoadConfigFromDB).
StartsAsTold ==
    [][\A p \in Proc : pc[p] = "configure" /\ pc'[p] = "running" =>
          Honours(settings'[p], job[p].flags, told[at[p]],
                  {k \in Key : Sure(at[p], k)})]_vars

\* What orchestratorStartCmd says of the settings, "Override with CLI flags
\* after DB load (CLI > DB > defaults)": a start that is given a flag runs with
\* it, whatever the table holds (cli/orchestrator.go:94).
FlagsComeFirst ==
    [][\A p \in Proc : pc[p] = "configure" /\ pc'[p] = "running" =>
          LET f == job[p].flags
              s == settings'[p]
          IN  /\ f.max > 0 => s.max = f.max
              /\ f.poll > 0 /\ Fits(f.poll, Second) => s.poll = f.poll * Second
              /\ f.dry => s.dry]_vars
=============================================================================
