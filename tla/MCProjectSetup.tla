--------------------------- MODULE MCProjectSetup ---------------------------
(* A directory and one below it.  Two of the three names have the same slug.  *)
EXTENDS ProjectSetup, TLC

MCPath == [top |-> <<"top">>, sub |-> <<"sub", "top">>]

MCBase == [top |-> "x", sub |-> "y"]

MCSlug == ("App" :> "app" @@ "app" :> "app" @@ "new" :> "new")

\* With a Half of 256 and a second of 1, 300 seconds wrap around to less than
\* none; with a minute of 3, 200 minutes wrap around to 88 and not 600.
MCText == {"", "x", "-1", "3", "200", "300", "true", "false"}

MCAtoi == ("-1" :> -1 @@ "3" :> 3 @@ "200" :> 200 @@ "300" :> 300)

MCCommand(op, dir) ==
    [NoJob EXCEPT !.op = op, !.dir = dir, !.name = "App"]

MCInit(dir, name) == [MCCommand("init", dir) EXCEPT !.name = name]

MCStart(max, poll, dry) ==
    [MCCommand("start", "sub") EXCEPT
       !.flags = [max |-> max, poll |-> poll, dry |-> dry]]

MCDaemon(list) == [MCCommand("daemon", "top") EXCEPT !.list = list]

MCJob ==
    { MCInit("top", "App"), MCInit("top", "new"),
      MCInit("sub", "App"),
      MCCommand("serve", "sub"),
      MCStart(0, 4, TRUE), MCStart(2, 0, FALSE),
      [MCCommand("set", "top") EXCEPT !.body = ("poll-interval-sec" :> "300")],
      MCDaemon(<<>>),
      MCDaemon(<<[slug |-> "", dir |-> "top"], [slug |-> "x", dir |-> "sub"]>>),
      MCDaemon(<<[slug |-> "z", dir |-> "sub"], [slug |-> "", dir |-> "top"]>>) }

MCBody ==
    { ("max-parallelism" :> "3" @@ "dry-run" :> "false"),
      ("max-parallelism" :> "-1") }

MCFirst ==
    { [top |-> "nothing", sub |-> "nothing"], [top |-> "project", sub |-> "nothing"],
      [top |-> "old", sub |-> "project"] }

MCFirstTable ==
    [Blank EXCEPT !["max-parallelism"] = "x", !["poll-interval-sec"] = "3",
                  !["worker-timeout-min"] = "200", !["claude-binary"] = "",
                  !["dry-run"] = "true"]

MCSymmetry == Permutations(Proc) \union Permutations(Call)
=============================================================================
