---------------------------- MODULE DeployConfig ----------------------------
(***************************************************************************)
(* What a deploy ships.  The tracked wrangler.jsonc owns the structure;    *)
(* the generated file of an env owns what the setup scripts found out or   *)
(* decided: sending domains, default sender, allow-list, D1 id, route.     *)
(* Every deploy builds from the first into the one dist/ of the checkout,  *)
(* overlays the second on it and ships the result (lib/deploy-config.ts,   *)
(* lib/sending-config.ts, lib/built-config.ts, deploy.ts, setup-cloud.ts,  *)
(* setup-domain.ts, the config part of setup-sending.ts, the config step   *)
(* of onboard.ts).  Commands may be refused or die anywhere, run in        *)
(* several terminals at once and undo each other's writes (`overwritten`   *)
(* says where); the tracked file is edited or pulled in between.           *)
(*                                                                         *)
(* A file is the set of the block it holds for its env, empty when there   *)
(* is no file.  An unset list of domains is empty, and an address stands   *)
(* for its domain.                                                         *)
(***************************************************************************)
EXTENDS Naturals, FiniteSets

CONSTANTS
    Terminals,      \* where commands are run, one at a time in each
    Envs,           \* environments: one Worker and one generated file each
    Domains,        \* sending domains
    NoSender,       \* MAIL_FROM_ADDRESS is not set
    Edits,          \* what may happen to wrangler.jsonc: see `edit`
    MaxEdits,       \* bound: edits of wrangler.jsonc
    MaxCommands     \* bound: commands started

ASSUME DeployAssumption ==
    /\ NoSender \notin Domains /\ IsFiniteSet(Domains)
    /\ MaxEdits \in Nat /\ MaxCommands \in Nat

VARIABLES
    tracked,        \* wrangler.jsonc: env -> block
    generated,      \* wrangler.generated.<env>.json: env -> file
    built,          \* dist/server/wrangler.json: the env built for, the block,
                    \* and whether the generated values are in it
    deployed,       \* env -> the block its Worker runs with, if any
    commands,       \* terminal -> the command it is in
    setUp,          \* history: env -> what a command has reported as set up
    overwritten,    \* history: envs where a stale plan, source or build was used
    edits, started

counters == <<edits, started>>
deployVars == <<tracked, generated, built, deployed, commands, setUp, overwritten, counters>>

AtPrompt == [name |-> "none"]
NothingSetUp == [domains |-> {}, from |-> NoSender, senders |-> {}, restricted |-> FALSE,
                 d1 |-> FALSE, route |-> FALSE]

DeployInit ==
    /\ \E wide \in BOOLEAN, d \in Domains :
          tracked = [e \in Envs |->
              [domains |-> IF wide THEN {} ELSE {d}, from |-> IF wide THEN NoSender ELSE d,
               bounded |-> ~wide, senders |-> IF wide THEN {} ELSE {d},
               d1 |-> "placeholder", route |-> FALSE, workersDev |-> wide, structure |-> 0]]
    /\ generated = [e \in Envs |-> {}]
    /\ built = {}
    /\ deployed = [e \in Envs |-> {}]
    /\ commands = [t \in Terminals |-> AtPrompt]
    /\ setUp = [e \in Envs |-> NothingSetUp]
    /\ overwritten = {}
    /\ edits = 0
    /\ started = 0

-----------------------------------------------------------------------------
(* The generated file wins, for the fields it owns and holds; the route    *)
(* and workers_dev go together.                                            *)
applyGeneratedOverlay(base, g) ==
    [domains |-> IF g.domains = {} THEN base.domains ELSE g.domains,
     from |-> IF g.from = NoSender THEN base.from ELSE g.from,
     d1 |-> g.d1,
     bounded |-> base.bounded \/ g.bounded,
     senders |-> IF g.bounded THEN g.senders ELSE base.senders,
     route |-> base.route \/ g.route,
     workersDev |-> IF g.route THEN g.workersDev ELSE base.workersDev,
     structure |-> base.structure]

Read(file) == CHOOSE block \in file : TRUE
Overlaid(base, file) == IF file = {} THEN base ELSE applyGeneratedOverlay(base, Read(file))
deployedVars(e) == Overlaid(tracked[e], generated[e])
Contents(e, path) == IF path = "generated" THEN Read(generated[e]) ELSE tracked[e]
SourcePath(e) == IF generated[e] = {} THEN "tracked" ELSE "generated"

(* Mutant: the list is taken from the one file that is written.            *)
planFromOneFile(e, d, asked) ==
    LET block == Contents(e, SourcePath(e))
        listed == block.bounded \/ "restrict" \in asked
    IN  [block EXCEPT !.from = IF @ = NoSender \/ "default" \in asked THEN d ELSE @,
                      !.domains = @ \union {d}, !.bounded = listed,
                      !.senders = IF listed THEN @ \union {d} ELSE @]

(* Mutant: an unbounded list is bounded without being asked to.            *)
planBoundsList(e, d, asked) ==
    LET block == Contents(e, SourcePath(e))
        current == deployedVars(e)
    IN  [block EXCEPT !.from = IF current.from = NoSender \/ "default" \in asked
                               THEN d ELSE current.from,
                      !.domains = current.domains \union {d}, !.bounded = TRUE,
                      !.senders = @ \union {d}]

(* Adding a domain does not reconfigure those already there: the list is a *)
(* union with what a deploy would ship, the default sender is kept if      *)
(* there is one unless --set-default-from asks, and the allow-list of the  *)
(* block is widened if it has one.  One that has none stays without unless *)
(* --restrict-senders asks: then the new address is alone on it.           *)
planSendingConfigUpdate(e, d, asked) ==
    LET block == Contents(e, SourcePath(e))
        current == deployedVars(e)
        listed == block.bounded \/ "restrict" \in asked
    IN  [block EXCEPT !.from = IF current.from = NoSender \/ "default" \in asked
                               THEN d ELSE current.from,
                      !.domains = current.domains \union {d}, !.bounded = listed,
                      !.senders = IF listed THEN @ \union {d} ELSE @]

-----------------------------------------------------------------------------
InCommand(t, name, step) == commands[t].name = name /\ commands[t].step = step
Env(t) == commands[t].env
GoesTo(t, step) == commands' = [commands EXCEPT ![t].step = step]
Ends(t) == commands' = [commands EXCEPT ![t] = AtPrompt]

Starts(t, command) ==
    /\ commands[t] = AtPrompt /\ started < MaxCommands
    /\ started' = started + 1
    /\ commands' = [commands EXCEPT ![t] = command]
    /\ UNCHANGED <<tracked, generated, built, deployed, setUp, overwritten, edits>>

(* What a plan is made from: the generated file and the declared domains.  *)
Seen(e) == [file |-> generated[e], declared |-> tracked[e].domains]

(* setup:sending plans from the files as it starts, calls Cloudflare, and  *)
(* writes what it planned.                                                 *)
PlannedCommand(e, d, asked) ==
    [name |-> "sending", step |-> "enable", env |-> e, domain |-> d, asked |-> asked,
     plan |-> planSendingConfigUpdate(e, d, asked),
     listed |-> Contents(e, SourcePath(e)).bounded, seen |-> Seen(e)]

setupSendingConfig(t, e, d, asked) == Starts(t, PlannedCommand(e, d, asked))

(* What it reports: the domain may send, beside the others unless asked to *)
(* bound a list that was unbounded, and the default sender is the first    *)
(* there was or the last that was asked for.                               *)
Promised(s, c) ==
    [s EXCEPT !.domains = @ \union {c.domain},
              !.from = IF @ = NoSender \/ "default" \in c.asked THEN c.plan.from ELSE @,
              !.senders = IF "restrict" \in c.asked /\ ~c.listed THEN {c.domain}
                          ELSE @ \union {c.domain},
              !.restricted = @ \/ "restrict" \in c.asked]

writesPlan(c) ==
    /\ generated' = [generated EXCEPT ![c.env] = {c.plan}]
    /\ setUp' = [setUp EXCEPT ![c.env] = Promised(@, c)]
    /\ overwritten' = overwritten \union {e \in {c.env} : c.seen # Seen(e)}
    /\ UNCHANGED <<tracked, built, deployed, edits>>

writeSendingConfig(t) ==
    /\ InCommand(t, "sending", "enable")
    /\ writesPlan(commands[t])
    /\ Ends(t)
    /\ UNCHANGED started

(* onboard plans again right before it writes, and has neither option.     *)
onboardConfig(t, e, d) ==
    /\ commands[t] = AtPrompt /\ started < MaxCommands
    /\ started' = started + 1
    /\ writesPlan(PlannedCommand(e, d, {}))
    /\ UNCHANGED commands

(* setup:cloud finds the D1 id and updates the generated file, or starts   *)
(* one from wrangler.jsonc.                                                *)
setupCloud(t, e) == Starts(t, [name |-> "cloud", step |-> "render", env |-> e])

(* Mutant: it takes a new snapshot of wrangler.jsonc every time.           *)
renderSnapshot(t) ==
    /\ InCommand(t, "cloud", "render")
    /\ generated' = [generated EXCEPT ![Env(t)] = {[tracked[Env(t)] EXCEPT !.d1 = "real"]}]
    /\ setUp' = [setUp EXCEPT ![Env(t)].d1 = TRUE]
    /\ GoesTo(t, "build")
    /\ UNCHANGED <<tracked, built, deployed, overwritten, counters>>

renderCloud(t) ==
    /\ InCommand(t, "cloud", "render")
    /\ generated' = [generated EXCEPT ![Env(t)] =
                        {[Contents(Env(t), SourcePath(Env(t))) EXCEPT !.d1 = "real"]}]
    /\ setUp' = [setUp EXCEPT ![Env(t)].d1 = TRUE]
    /\ GoesTo(t, "build")
    /\ UNCHANGED <<tracked, built, deployed, overwritten, counters>>

(* setup:domain chooses its source as it starts, refuses a hostname that   *)
(* another Worker has, and adds the route and closes workers.dev.          *)
setupDomain(t, e) ==
    Starts(t, [name |-> "domain", step |-> "render", env |-> e, source |-> SourcePath(e)])

renderDomain(t) ==
    /\ InCommand(t, "domain", "render")
    /\ generated' = [generated EXCEPT ![Env(t)] =
                        {[Contents(Env(t), commands[t].source) EXCEPT
                            !.d1 = "real", !.route = TRUE, !.workersDev = FALSE]}]
    /\ setUp' = [setUp EXCEPT ![Env(t)].d1 = TRUE, ![Env(t)].route = TRUE]
    /\ overwritten' = overwritten \union {e \in {Env(t)} : commands[t].source # SourcePath(e)}
    /\ GoesTo(t, "build")
    /\ UNCHANGED <<tracked, built, deployed, counters>>

deployCommand(t, e) == Starts(t, [name |-> "deploy", step |-> "build", env |-> e])

-----------------------------------------------------------------------------
(* The one deploy path: build from the tracked file, overlay the generated *)
(* one, unless dist/ was built for another Worker, and ship what is there. *)
InDeploy(t, step) == commands[t] # AtPrompt /\ commands[t].step = step

buildAppForDeploy(t) ==
    /\ InDeploy(t, "build")
    /\ built' = {[env |-> Env(t), block |-> tracked[Env(t)], overlaid |-> FALSE]}
    /\ GoesTo(t, "patch")
    /\ UNCHANGED <<tracked, generated, deployed, setUp, overwritten, counters>>

patchBuiltConfig(t) ==
    /\ InDeploy(t, "patch")
    /\ IF \E b \in built : b.env = Env(t)
       THEN /\ built' = {[b EXCEPT !.block = Overlaid(@, generated[Env(t)]),
                                   !.overlaid = TRUE] : b \in built}
            /\ GoesTo(t, "ship")
       ELSE Ends(t) /\ UNCHANGED built
    /\ UNCHANGED <<tracked, generated, deployed, setUp, overwritten, counters>>

wranglerDeploy(t) ==
    /\ InDeploy(t, "ship")
    /\ \E b \in built :
          /\ deployed' = [deployed EXCEPT ![b.env] = {b.block}]
          /\ overwritten' = IF b.overlaid THEN overwritten ELSE overwritten \union {b.env}
    /\ Ends(t)
    /\ UNCHANGED <<tracked, generated, built, setUp, counters>>

(* Refused by Cloudflare (no D1 id, the enable call, a hostname or a queue *)
(* that another Worker has, the deploy itself) or interrupted: it ends.    *)
CommandStops(t) ==
    /\ commands[t] # AtPrompt
    /\ Ends(t)
    /\ UNCHANGED <<tracked, generated, built, deployed, setUp, overwritten, counters>>

(* wrangler.jsonc changes: structure that the code needs, a domain the     *)
(* operator declares there, workers.dev closed, an allow-list introduced.  *)
Edited(block, what) ==
    CASE what = "structure" -> [block EXCEPT !.structure = @ + 1]
      [] what = "domain" -> [block EXCEPT !.domains = Domains]
      [] what = "workers_dev" -> [block EXCEPT !.workersDev = FALSE]
      [] OTHER -> [block EXCEPT !.bounded = TRUE, !.senders = IF block.bounded THEN @ ELSE block.domains]

edit ==
    /\ edits < MaxEdits
    /\ edits' = edits + 1
    /\ \E what \in Edits : tracked' = [e \in Envs |-> Edited(tracked[e], what)]
    /\ UNCHANGED <<generated, built, deployed, commands, setUp, overwritten, started>>

DeployNext ==
    \/ edit
    \/ \E t \in Terminals :
        \/ \E e \in Envs : setupCloud(t, e) \/ setupDomain(t, e) \/ deployCommand(t, e)
        \/ \E e \in Envs, d \in Domains :
            \/ \E asked \in SUBSET {"default", "restrict"} : setupSendingConfig(t, e, d, asked)
            \/ onboardConfig(t, e, d)
        \/ writeSendingConfig(t) \/ renderCloud(t) \/ renderDomain(t)
        \/ buildAppForDeploy(t) \/ patchBuiltConfig(t) \/ wranglerDeploy(t) \/ CommandStops(t)

-----------------------------------------------------------------------------
(* Nothing that was set up is lost to a later command, edit or death: the  *)
(* next deploy of an env would ship every domain that was added            *)
(* ("MAIL_SENDING_DOMAINS is a union and never a replacement"), the default*)
(* sender that was set or asked for, the D1 id and the route that were     *)
(* found.  An allow-list that a plan wrote admits every domain that was    *)
(* told it may send, and one stands only where wrangler.jsonc has it or    *)
(* --restrict-senders asked ("an unbounded list stays unbounded").  Of an  *)
(* env where a stale plan or source undid a write nothing is said.         *)
SetUpIsShipped ==
    \A e \in Envs \ overwritten :
        /\ setUp[e].domains \subseteq deployedVars(e).domains
        /\ setUp[e].from # NoSender => deployedVars(e).from = setUp[e].from
        /\ setUp[e].d1 => deployedVars(e).d1 = "real"
        /\ setUp[e].route => deployedVars(e).route /\ ~deployedVars(e).workersDev
        /\ \A g \in generated[e] : g.bounded => setUp[e].senders \subseteq deployedVars(e).senders
        /\ deployedVars(e).bounded => tracked[e].bounded \/ setUp[e].restricted

(* Planning for a domain widens the allow-list that a deploy would ship    *)
(* ("a list that is already bounded is widened").  Not so when the list is *)
(* only in wrangler.jsonc: the generated file alone says whether there is  *)
(* one.                                                                    *)
PlanWidensList ==
    \A e \in Envs, d \in Domains : deployedVars(e).bounded =>
        d \in applyGeneratedOverlay(tracked[e], planSendingConfigUpdate(e, d, {})).senders

(* A deploy takes nothing away from the Worker it replaces: no domain, no  *)
(* route, no D1 id, no structure added to wrangler.jsonc since a snapshot  *)
(* was taken, and it does not open workers.dev again; short of a stale     *)
(* plan or source, and of a build that another terminal put in dist/ over  *)
(* the one that was ready.                                                 *)
DeploysOnlyAdd ==
    [][\A e \in Envs \ overwritten' : \A old \in deployed[e], new \in deployed'[e] :
            /\ old.domains \subseteq new.domains
            /\ old.route => new.route
            /\ old.d1 = "real" => new.d1 = "real"
            /\ old.structure <= new.structure
            /\ new.workersDev => old.workersDev]_deployVars
=============================================================================
