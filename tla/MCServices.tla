----------------------------- MODULE MCServices -----------------------------
(***************************************************************************)
(* The server's handlers over the journal (MCServer) and the parts that    *)
(* keep to themselves, one module each, checked in one run of TLC: `unit`  *)
(* says which of them a behaviour is about, and the variables of the       *)
(* others are Off throughout.  Nothing is composed here: each part starts  *)
(* in its own Init and takes its own steps.                                *)
(***************************************************************************)
EXTENDS MCServer, Parts

CONSTANT Off

(* The plan of a start.                                                    *)
CONSTANTS Limits, MaxCreated
(* The walks.                                                              *)
CONSTANTS Nodes, NodeType, LinkPool, Walks, MaxDrops

VARIABLE unit
VARIABLES groups, groupV1, freeMem, fixed, counters, memoryMode, nsList,
          serving, inMemory, onDisk, idNext, promised, created
VARIABLES nodes, links, drops, walk, seen, depths, kept, emitted, offers,
          frontier, nextFrontier, level, parents, phase
Plan == INSTANCE LoadPlan
Walk == INSTANCE Traversal

-----------------------------------------------------------------------------
serverVars == <<graph, journal, op, adrift, poisoned, up, scene, ing>>
planVars ==
    <<groups, groupV1, freeMem, fixed, counters, memoryMode, nsList,
      serving, inMemory, onDisk, idNext, promised, created>>
walkVars ==
    <<nodes, links, drops, walk, seen, depths, kept, emitted, offers,
      frontier, nextFrontier, level, parents, phase>>

(* What the variables of a part that is not the subject hold.              *)
NoServer ==
    /\ graph = Off /\ journal = Off /\ op = Off /\ adrift = Off
    /\ poisoned = Off /\ up = Off /\ scene = Off /\ ing = Off
NoLists ==
    /\ kind = Off /\ map = Off /\ index = Off /\ gen = Off /\ cache = Off
    /\ writer = Off /\ reader = Off /\ client = Off /\ last = Off
NoFile ==
    /\ log = Off /\ torn = Off /\ snap = Off /\ seq = Off /\ table = Off
    /\ pending = Off /\ shot = Off /\ refuses = Off /\ running = Off
    /\ acked = Off /\ raced = Off
NoMigrate ==
    /\ legacyLog = Off /\ legacySnap = Off /\ retired = Off /\ staging = Off
    /\ store = Off /\ start = Off /\ whole = Off /\ halved = Off
NoBackup ==
    /\ parts = Off /\ active = Off /\ nextRec = Off /\ dest = Off
    /\ complete = Off /\ copying = Off /\ taken = Off /\ shown = Off
NoReview ==
    /\ live = Off /\ disk = Off /\ broken = Off /\ pos = Off /\ strict = Off
    /\ refs = Off /\ baseline = Off /\ report = Off /\ served = Off
NoAccounts ==
    /\ allow = Off /\ db = Off /\ file = Off /\ nextId = Off /\ tokens = Off
    /\ req = Off
NoAsk ==
    /\ mode = Off /\ script = Off /\ attempt = Off /\ first = Off
    /\ answer = Off /\ got = Off /\ used = Off /\ net = Off /\ failures = Off
    /\ why = Off /\ out = Off /\ ended = Off
NoExtract ==
    /\ queue = Off /\ idx = Off /\ concepts = Off /\ relations = Off
    /\ result = Off
NoSearch ==
    /\ corpus = Off /\ nextConcept = Off /\ docTerms = Off /\ postings = Off
    /\ nDocs = Off /\ rows = Off /\ rowOf = Off /\ cached = Off
    /\ cacheFile = Off /\ dirty = Off /\ ghosts = Off
NoPayloads ==
    /\ slots = Off /\ pendingLocs = Off /\ sealedSeen = Off /\ sealable = Off
    /\ segIndex = Off /\ actives = Off /\ work = Off /\ born = Off
    /\ writes = Off /\ swaps = Off /\ look = Off
NoPlan ==
    /\ groups = Off /\ groupV1 = Off /\ freeMem = Off /\ fixed = Off
    /\ counters = Off /\ memoryMode = Off /\ nsList = Off /\ serving = Off
    /\ inMemory = Off /\ onDisk = Off /\ idNext = Off /\ promised = Off
    /\ created = Off
NoWalk ==
    /\ nodes = Off /\ links = Off /\ drops = Off /\ walk = Off /\ seen = Off
    /\ depths = Off /\ kept = Off /\ emitted = Off /\ offers = Off
    /\ frontier = Off /\ nextFrontier = Off /\ level = Off /\ parents = Off
    /\ phase = Off
NoSegment ==
    /\ head = Off /\ cells = Off /\ hardCells = Off /\ buffered = Off
    /\ idxFile = Off /\ hardIndex = Off /\ rolled = Off /\ proc = Off
    /\ committed = Off /\ faults = Off /\ harm = Off /\ rotten = Off
    /\ severed = Off /\ holed = Off
NoSettings ==
    /\ settings = Off /\ onFile = Off /\ patching = Off /\ crossed = Off
    /\ unsaved = Off
    /\ clientCache = Off /\ calling = Off /\ answeredBy = Off
    /\ patches = Off
NoRegistries ==
    /\ clock = Off /\ queries = Off /\ nextQuery = Off /\ gone = Off
    /\ runs = Off /\ bucket = Off /\ admitted = Off /\ samples = Off
    /\ part = Off

ServicesInit ==
    /\ unit \in {"server", "lists", "file", "migrate", "backup", "review", "accounts", "ask", "extract",
                "search", "payloads", "plan", "walk", "segment", "settings", "registries"}
    /\ IF unit = "server" THEN IInit ELSE NoServer
    /\ IF unit = "lists" THEN Lists!PInit ELSE NoLists
    /\ IF unit = "file" THEN File!FInit ELSE NoFile
    /\ IF unit = "migrate" THEN Migrate!GInit ELSE NoMigrate
    /\ IF unit = "backup" THEN Backup!KInit ELSE NoBackup
    /\ IF unit = "review" THEN Review!RInit ELSE NoReview
    /\ IF unit = "accounts" THEN Accounts!AInit ELSE NoAccounts
    /\ IF unit = "ask" THEN Ask!QInit ELSE NoAsk
    /\ IF unit = "extract" THEN Extract!XInit ELSE NoExtract
    /\ IF unit = "search" THEN Search!SInit ELSE NoSearch
    /\ IF unit = "payloads" THEN Payloads!TInit ELSE NoPayloads
    /\ IF unit = "plan" THEN Plan!LInit ELSE NoPlan
    /\ IF unit = "walk" THEN Walk!LInit ELSE NoWalk
    /\ IF unit = "segment" THEN Segment!CInit ELSE NoSegment
    /\ IF unit = "settings" THEN Settings!MInit ELSE NoSettings
    /\ IF unit = "registries" THEN Registries!NInit ELSE NoRegistries

(* The parts other than u stay as they are.                                *)
OthersRest(u) ==
    /\ unit = u /\ UNCHANGED unit
    /\ IF u = "server" THEN TRUE ELSE UNCHANGED serverVars
    /\ IF u = "lists" THEN TRUE ELSE UNCHANGED listsVars
    /\ IF u = "file" THEN TRUE ELSE UNCHANGED fileVars
    /\ IF u = "migrate" THEN TRUE ELSE UNCHANGED migrateVars
    /\ IF u = "backup" THEN TRUE ELSE UNCHANGED backupVars
    /\ IF u = "review" THEN TRUE ELSE UNCHANGED reviewVars
    /\ IF u = "accounts" THEN TRUE ELSE UNCHANGED accountsVars
    /\ IF u = "ask" THEN TRUE ELSE UNCHANGED askVars
    /\ IF u = "extract" THEN TRUE ELSE UNCHANGED extractVars
    /\ IF u = "search" THEN TRUE ELSE UNCHANGED searchVars
    /\ IF u = "payloads" THEN TRUE ELSE UNCHANGED payloadsVars
    /\ IF u = "plan" THEN TRUE ELSE UNCHANGED planVars
    /\ IF u = "walk" THEN TRUE ELSE UNCHANGED walkVars
    /\ IF u = "segment" THEN TRUE ELSE UNCHANGED segmentVars
    /\ IF u = "settings" THEN TRUE ELSE UNCHANGED settingsVars
    /\ IF u = "registries" THEN TRUE ELSE UNCHANGED registriesVars

ServerStep == OthersRest("server") /\ INext
ListsStep == OthersRest("lists") /\ Lists!PNext
FileStep == OthersRest("file") /\ File!FNext
MigrateStep == OthersRest("migrate") /\ Migrate!GNext
BackupStep == OthersRest("backup") /\ Backup!KNext
ReviewStep == OthersRest("review") /\ Review!RNext
AccountsStep == OthersRest("accounts") /\ Accounts!ANext
AskStep == OthersRest("ask") /\ Ask!QNext
ExtractStep == OthersRest("extract") /\ Extract!XNext
SearchStep == OthersRest("search") /\ Search!SNext
PayloadsStep == OthersRest("payloads") /\ Payloads!TNext
PlanStep == OthersRest("plan") /\ Plan!LNext
WalkStep == OthersRest("walk") /\ Walk!LNext
SegmentStep == OthersRest("segment") /\ Segment!CNext
SettingsStep == OthersRest("settings") /\ Settings!MNext
RegistriesStep == OthersRest("registries") /\ Registries!NNext

ServicesNext ==
    \/ ServerStep \/ ListsStep \/ FileStep \/ MigrateStep \/ BackupStep
    \/ ReviewStep \/ AccountsStep \/ AskStep \/ ExtractStep \/ SearchStep
    \/ PayloadsStep \/ PlanStep \/ WalkStep \/ SegmentStep \/ SettingsStep
    \/ RegistriesStep

servicesVars ==
    <<unit, serverVars, listsVars, fileVars, migrateVars, backupVars, reviewVars, accountsVars,
      askVars, extractVars, searchVars, payloadsVars, planVars, walkVars, segmentVars,
      settingsVars, registriesVars>>

ServicesSpec == ServicesInit /\ [][ServicesNext]_servicesVars

-----------------------------------------------------------------------------
(* The instances.                                                          *)
OneTwo      == 1 .. 2
OneToThree  == 1 .. 3
OneToFour   == 1 .. 4
ThreeFour   == {3, 4}
JustThree   == {3}
JustX       == {"x"}
TwoTexts    == {{1}, {1, 2}}
TwoScripts  == {<<"start", "a", "ping", "b", "why", "stop">>, <<"start", "a", "oops", "b", "stop">>}
TwoDeltas   == {"a", "b"}
(* The third line is surer of the entity of the first.                     *)
ThreeKeys   == {"x", "y", "z"}
FourLines   == <<[key |-> "x", conf |-> 1], [key |-> "y", conf |-> 1],
                 [key |-> "x", conf |-> 2], [key |-> "z", conf |-> 1]>>
TwoLimits   == {8, 14}
SomePatches == {[active |-> "p"], [active |-> "q", key |-> 1], [key |-> 2], [model |-> 0]}

(* Concept 4 is of another type; two triangles share the link 1 -> 4.      *)
TypeOfNode == [n \in 1..4 |-> IF n = 4 THEN "U" ELSE "T"]
LinkOf(s, t, ty, w) == [src |-> s, tgt |-> t, type |-> ty, w |-> w]
SevenLinks == <<LinkOf(1, 2, "r", 1), LinkOf(1, 3, "r", 2), LinkOf(4, 1, "r", 3), LinkOf(1, 4, "q", 1),
                LinkOf(2, 3, "q", 2), LinkOf(3, 4, "r", 1), LinkOf(1, 1, "q", 3)>>

BothSides == {"out", "in"}
RandQ     == {"r", "q"}
TandU     == {"T", "U"}
ExpandWalk(seeds, depth, types, conceptTypes, sides, maxNodes, maxEdges) ==
    [do |-> "expand", seeds |-> seeds, depth |-> depth, types |-> types, conceptTypes |-> conceptTypes,
     sides |-> sides, maxNodes |-> maxNodes, maxEdges |-> maxEdges, goal |-> 0]
PlainWalk(do, from, goal, depth, types) ==
    [do |-> do, seeds |-> <<from>>, goal |-> goal, depth |-> depth, types |-> types, conceptTypes |-> TandU,
     sides |-> BothSides, maxNodes |-> 9, maxEdges |-> 0]

AllWalks ==
    {ExpandWalk(<<1>>, 1, RandQ, TandU, BothSides, 9, 3),
     ExpandWalk(<<1>>, 2, RandQ, TandU, BothSides, 3, 0),
     ExpandWalk(<<1, 3>>, 2, RandQ, {"T"}, BothSides, 4, 0),
     ExpandWalk(<<2, 3>>, 2, {"r"}, TandU, {"out"}, 1, 2),
     ExpandWalk(<<1>>, 2, RandQ, TandU, BothSides, 9, 4),
     PlainWalk("path", 2, 4, 2, RandQ), PlainWalk("path", 1, 4, 3, RandQ), PlainWalk("path", 2, 2, 3, RandQ),
     PlainWalk("closure", 2, 0, 2, {"r"})}

-----------------------------------------------------------------------------
(* The properties, each about one part; what they say is at their          *)
(* definitions in its module.                                              *)

(* What is served is what a restart on the journal would serve, again      *)
(* where no request is cancelled (WriteAhead).                             *)
ServerRestart == unit = "server" => RestartShowsLive

(* A restart accepts the journal, in the scenes where no request is        *)
(* cancelled; the others have PreparedReplays (WriteAhead).                *)
ServerReplay == unit = "server" => ReplayAccepted

(* What was answered is in the journal (WriteAhead).                       *)
ServerJournal == unit = "server" => Journaled

(* The name index of the graph is the inverse of its names (WriteAhead).   *)
ServerNames == unit = "server" => NamesExact

(* The allocators are ahead of every id the journal names (WriteAhead).    *)
ServerIds == unit = "server" => IdsFresh

(* The schema in force is the last one on disk, rolled back or not.        *)
ServerSchema == unit = "server" => SchemaOnDisk

(* A cached page is one the graph had while it was computed (ListPages).   *)
PageFresh == unit = "lists" => Lists!PageFresh

(* A walk by cursor meets every row that was there throughout (ListPages). *)
WalkComplete == unit = "lists" => Lists!WalkComplete

(* The legacy file store restores what it acknowledged (FileStore).        *)
LegacyKept == unit = "file" => File!LegacyKept

(* A start during a migration serves the whole graph (Migrate).            *)
ServesWhole == unit = "migrate" => Migrate!ServesWhole

(* What a destination shows changes only to the backup just taken.         *)
RestoresTaken == [][unit = "backup" => (shown' # shown => shown' = taken)]_<<unit, backupVars>>

(* A review serves nothing that a restart would lose but types still to be *)
(* journaled, and what its report calls created is on disk (Review).       *)
ReviewDurable == unit = "review" => Review!ReviewDurable

(* At most one first administrator, whatever the interleaving (Accounts).  *)
OneAdmin == unit = "accounts" => Accounts!OneAdmin

(* A streamed answer is the provider's, whole and in order (Ask).          *)
StreamWhole == unit = "ask" => Ask!StreamWhole

(* A proposal out of pieces names what the document says (Extract).        *)
ProposalWhole == unit = "extract" => Extract!ProposalWhole

(* The index holds what it would hold rebuilt (Search).                    *)
IndexCurrent == unit = "search" => Search!IndexCurrent

(* A payload read through its location is a current one (Payloads).        *)
ReadsCurrent == unit = "payloads" => Payloads!ReadsCurrent

(* A plan fits what was measured, or the start is refused (LoadPlan).      *)
PlanFits == unit = "plan" => Plan!PlanFits

(* Expansion, shortest path and closure (Traversal).                       *)
ExpansionSound == unit = "walk" => Walk!ExpansionSound

(* A segment opened again holds what was committed, but for what a damaged *)
(* record takes along (SegmentFile).                                       *)
RecoverySound == unit = "segment" => Segment!RecoverySound

(* The settings served are those on file, if the last write of the file    *)
(* succeeded; saved queries, rate limit and samples (Settings,             *)
(* Registries).                                                            *)
AdminSound ==
    /\ unit = "settings" => Settings!SettingsServed
    /\ unit = "registries" => Registries!RegistriesKept

=============================================================================
