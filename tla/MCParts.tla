------------------------------- MODULE MCParts -------------------------------
(***************************************************************************)
(* The smaller parts of the server on small instances, one per behaviour:  *)
(* the variable "part" says which of them moves, the others stand still.   *)
(***************************************************************************)
EXTENDS HealthPinger, Sessions, CpuSampler, LaunchPlan, Layers

CONSTANTS
  Pullers, Viewers, Cap, Messages            \* ImagePull.tla

VARIABLES
  part,
  status, pulls, buffered, closed, pc, kapp, left, found, watches, up

pull == <<status, pulls, buffered, closed, pc, kapp, left, found, watches, up>>

-----------------------------------------------------------------------------
(* The images: a first layer that adds, and a second that may hide.        *)

Dir(layer) == Header("dir", layer, "", NoFile)

Makers(layer) ==
  {Header("file", layer, n, Thing("file", layer, n)) : n \in Names}
    \cup {Header("symlink", layer, "x", Thing("symlink", layer, "y"))}
    \cup {Header("link", layer, n, Thing("name", 0, m)) :
            <<n, m>> \in {<<"x", "y">>, <<"y", "x">>}}

Hiders(layer) == {Header("white", layer, n, NoFile) : n \in Names}
                   \cup {Header("opaque", layer, "", NoFile)}

LayersOf(layer, es) == {<<Dir(layer)>> \o s : s \in BoundedSeq(es, 2)}

TwoLayers ==
  {low \o high : low \in LayersOf(1, Makers(1)),
                 high \in LET some == LayersOf(2, Makers(2) \cup Hiders(2))
                          IN some \cup {Tail(s) : s \in some}}

(* Other images, whose files have other contents.                          *)
OneLayer ==
  LayersOf(3, {Header("file", 3, "x", Thing("file", 3, "x")),
               Header("link", 3, "y", Thing("name", 0, "x")),
               Header("white", 3, "y", NoFile),
               Header("opaque", 3, "", NoFile)})

(* The apps: each way to start one, with the files that decide the plan.   *)
ProgAbs == T("abs", "prog")

AppsToStart ==
  [mode : {"chroot", "prefix", "bare"},
   argv0 : {ProgAbs, T("rel", "prog")},
   args : {<<>>, <<T("rel", "flag"), T("abs", "conf")>>},
   dirs : SUBSET (1 .. BinDirs),
   type : {"static", "dynamic", "script"},
   arg : {T("rel", "shflag"), NoArg},
   shell : {"none", "static", "dynamic"},
   linker : BOOLEAN, libs : BOOLEAN,
   env : {<<>>, <<Var("PATH", <<"abs", "rel">>)>>, <<Var("Path", <<"abs">>)>>,
          <<Var("HOME", <<"abs">>), Var("LD_LIBRARY_PATH", <<"abs">>)>>}]

K == INSTANCE ImagePull

-----------------------------------------------------------------------------
(* A part that stands still has a value of its type, and only one.         *)

PingerParked ==
  /\ PingerInit /\ rows = {} /\ checked = {}
  /\ pingee = [p \in Pingers |-> CHOOSE a \in Apps : TRUE]
PullParked    == K!Init /\ status = [a \in Apps |-> "stopped"]
LayersParked  == /\ image = <<>> /\ done = 0
                 /\ disk = NoDisk /\ before = NoDisk
                 /\ tries = 0 /\ outcome = "running"
LaunchParked  ==
  app = [mode |-> "bare", argv0 |-> ProgAbs, args |-> <<>>, dirs |-> {},
         type |-> "static", arg |-> NoArg, shell |-> "none",
         linker |-> FALSE, libs |-> FALSE, env |-> <<>>]
SamplerParked == /\ cpu = [busy |-> 1, still |-> 0, iowait |-> 0]
                 /\ prev = NoReading /\ percent = 0 /\ taken = <<>>
                 /\ shares = {0}

PartsInit ==
  /\ part \in {"pinger", "pull", "layers", "launch", "sampler", "sessions"}
  /\ IF part = "pinger" THEN PingerInit ELSE PingerParked
  /\ IF part = "pull" THEN K!Init ELSE PullParked
  /\ IF part = "layers" THEN ExtractInit ELSE LayersParked
  /\ IF part = "launch" THEN app \in AppsToStart ELSE LaunchParked
  /\ LaunchTypeOK
  /\ IF part = "sampler" THEN SamplerInit ELSE SamplerParked
  /\ SessionsInit

PartsNext ==
  /\ UNCHANGED <<part, app>>
  /\ \/ /\ part = "pinger" /\ PingerNext
        /\ UNCHANGED <<pull, xvars, mvars, avars>>
     \/ /\ part = "pull" /\ K!Next
        /\ UNCHANGED <<pvars, xvars, mvars, avars>>
     \/ /\ part = "layers" /\ ExtractNext
        /\ UNCHANGED <<pvars, pull, mvars, avars>>
     \/ /\ part = "sampler" /\ SamplerNext
        /\ UNCHANGED <<pvars, pull, xvars, avars>>
     \/ /\ part = "sessions" /\ SessionsNext
        /\ UNCHANGED <<pvars, pull, xvars, mvars>>

partvars == <<part, app, pvars, pull, xvars, mvars, avars>>

PartsSpec == /\ PartsInit /\ [][PartsNext]_partvars
             /\ PingerFairness /\ K!Fairness

-----------------------------------------------------------------------------
(* The properties of the parts, with the comments of their modules.        *)

(* ViewersEnd of ImagePull.tla (apps.go:276).                              *)
ViewersEnd == K!ViewersEnd
=============================================================================
