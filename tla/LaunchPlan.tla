------------------------------ MODULE LaunchPlan ------------------------------
(***************************************************************************)
(* startProcess of internal/runtime/process.go: which file is executed,    *)
(* with which arguments and environment, for an app and what its rootfs    *)
(* holds.  Paths are not spelled out: a token is a kind and a name, and a  *)
(* token of kind "abs" joined to the rootfs is one of kind "rootfs".       *)
(***************************************************************************)
EXTENDS Naturals, Sequences, SequencesExt, FiniteSetsExt

CONSTANTS
  BinDirs,  \* how many directories lookPathInRootfs searches (6)
  Keys,     \* the names environment variables can have
  NoArg

ASSUME LaunchAssumption ==
  {"PATH", "Path", "HOME", "LD_LIBRARY_PATH"} \subseteq Keys

VARIABLE app  \* the app to start, and the files that matter to it

\* dir: in which of the searched directories it was found, if in one.
Token(kind, name, dir) == [kind |-> kind, name |-> name, dir |-> dir]
T(kind, name) == Token(kind, name, 0)

(* argv0: an absolute path or a bare name; args: what follows it.          *)
(* dirs: the directories of the rootfs where the bare name is found.       *)
(* type: what the file at cmd.Path is, the host's when the rootfs does not *)
(* have the name; arg: the argument on its #! line, or NoArg.              *)
(* shell: what the rootfs has as its interpreter.  linker, libs: the       *)
(* dynamic linker and the library directories the image has.               *)
(* env: the app's own variables.                                           *)
IsApp(a) ==
  /\ a.mode \in {"chroot", "prefix", "bare"}   \* "bare": no rootfs_path
  /\ a.argv0 \in {T("abs", "prog"), T("rel", "prog")}
  /\ a.args \in Seq({T("rel", "flag"), T("abs", "conf")})
  /\ a.dirs \subseteq 1 .. BinDirs
  /\ a.type \in {"static", "dynamic", "script"}
  /\ a.arg \in {T("rel", "shflag"), NoArg}
  /\ a.shell \in {"none", "static", "dynamic"}
  /\ a.linker \in BOOLEAN /\ a.libs \in BOOLEAN
  /\ a.env \in Seq([key : Keys, places : Seq({"abs", "rel"})])

LaunchTypeOK == IsApp(app)

-----------------------------------------------------------------------------
(* The arguments.                                                          *)

RawArgv(a) == <<a.argv0>> \o a.args

Prefixed(t) == IF t.kind = "abs" THEN [t EXCEPT !.kind = "rootfs"] ELSE t

(* The first of the directories that has the name.                         *)
LookPath(a) ==
  IF a.argv0.kind = "abs" \/ a.dirs = {} THEN a.argv0
  ELSE Token("abs", a.argv0.name,
             CHOOSE d \in a.dirs : \A e \in a.dirs : d <= e)

\* Mutant: the bare name is left to exec.Command, and the host's PATH.
ArgvHostPath(a) == [i \in 1 .. 1 + Len(a.args) |-> Prefixed(RawArgv(a)[i])]

Argv(a) ==
  [i \in 1 .. 1 + Len(a.args) |->
     Prefixed(IF i = 1 THEN LookPath(a) ELSE RawArgv(a)[i])]

\* What exec.Command makes of a bare name that the rootfs does not have: it
\* looks for it on the host, and Start fails if that does not have it either.
HostPath(t) == IF t.kind = "rel" THEN [t EXCEPT !.kind = "host"] ELSE t

Linker == T("rootfs", "ld.so")
Shell  == T("rootfs", "sh")

LibraryPath(a) ==
  IF a.libs THEN <<T("rel", "--library-path"), T("rel", "dirs")>> ELSE <<>>

Linked(a, argv) == <<Linker>> \o LibraryPath(a) \o argv

(* The #! line: the interpreter, its argument if any, and the script.      *)
Interpreted(a, argv) ==
  <<Shell>> \o (IF a.arg = NoArg THEN <<>> ELSE <<a.arg>>) \o argv

Plan(path, args) == [path |-> path, args |-> args]

\* Mutant: the interpreter of a script is executed as it is.
ShellUnlinked(a) == FALSE

ShellLinked(a) == a.shell = "dynamic" /\ a.linker

PrefixPlan(a) ==
  LET argv   == Argv(a)
      shargv == Interpreted(a, argv)
  IN CASE a.type = "dynamic" /\ a.linker -> Plan(Linker, Linked(a, argv))
       [] a.type = "script" /\ ShellLinked(a) ->
            Plan(Linker, Linked(a, shargv))
       [] a.type = "script" /\ a.shell # "none" /\ ~ShellLinked(a) ->
            Plan(Shell, shargv)
       [] OTHER -> Plan(HostPath(argv[1]), argv)

StartPlan(a) ==
  CASE a.mode = "chroot" -> Plan(LookPath(a), RawArgv(a))
    [] a.mode = "prefix" -> PrefixPlan(a)
    [] a.mode = "bare"   -> Plan(HostPath(a.argv0), RawArgv(a))

-----------------------------------------------------------------------------
(* The environment: buildEnv, injectLibPaths, prefixPathEnv.  A variable is*)
(* a key and the places its entries are in.                                *)

Var(key, places) == [key |-> key, places |-> places]

Has(env, keys) == \E v \in Range(env) : v.key \in keys

\* EqualFold takes "Path" for PATH.
BuildEnv(env) ==
  env \o (IF Has(env, {"PATH", "Path"}) THEN <<>> ELSE <<Var("PATH", <<"abs">>)>>)
      \o (IF Has(env, {"HOME"}) THEN <<>> ELSE <<Var("HOME", <<"abs">>)>>)

Change(env, key, F(_)) ==
  LET i == SelectInSeq(env, LAMBDA v : v.key = key)
  IN IF i = 0 THEN env ELSE [env EXCEPT ![i].places = F(@)]

InjectLibPaths(a, env) ==
  IF ~a.libs THEN env
  ELSE IF Has(env, {"LD_LIBRARY_PATH"})
       THEN Change(env, "LD_LIBRARY_PATH", LAMBDA p : <<"rootfs">> \o p)
       ELSE Append(env, Var("LD_LIBRARY_PATH", <<"rootfs">>))

\* Mutant: the entries are left as they are.
PrefixPathNot(env) == env

PrefixPathEnv(env) ==
  Change(env, "PATH",
         LAMBDA p : [i \in DOMAIN p |-> IF p[i] = "abs" THEN "rootfs" ELSE p[i]])

StartEnv(a) ==
  IF a.mode = "prefix" THEN PrefixPathEnv(InjectLibPaths(a, BuildEnv(a.env)))
  ELSE BuildEnv(a.env)

-----------------------------------------------------------------------------
(* What the kernel, the linker and the shell make of a plan: the linker    *)
(* loads its first argument that is no option, with those after it; the    *)
(* shell reads the script it is given, after its own argument.             *)

AfterLinker(args) ==
  IF Len(args) > 1 /\ args[2] = T("rel", "--library-path")
  THEN SubSeq(args, 4, Len(args)) ELSE Tail(args)

AfterShell(a, args) ==
  SubSeq(args, IF a.arg = NoArg THEN 2 ELSE 3, Len(args))

Loaded(p) == IF p.path = Linker THEN AfterLinker(p.args)
             ELSE <<p.path>> \o Tail(p.args)

RunsAs(a, p) ==
  LET l == Loaded(p)
  IN IF l # <<>> /\ Head(l) = Shell THEN AfterShell(a, l) ELSE l

Found(a) == a.argv0.kind = "abs" \/ a.dirs # {}

Program(a) ==
  Token("rootfs", a.argv0.name, IF a.argv0.kind = "abs" THEN 0
                                ELSE Min(a.dirs))

(* In rootfs-prefix mode a program the image has is run from the image,    *)
(* the first of its name, with all its arguments in their order, absolute  *)
(* ones as host paths, through whatever linker and shell                   *)
(* (process.go:59-170).                                                    *)
RunsImageProgram ==
  app.mode = "prefix" /\ Found(app) =>
    RunsAs(app, StartPlan(app))
      = <<Program(app)>> \o [i \in DOMAIN app.args |-> Prefixed(app.args[i])]

NeedsLinker(a) ==
  a.type = "dynamic" \/ (a.type = "script" /\ a.shell = "dynamic")

SetsOnce(env) ==
  \A i, j \in DOMAIN env : env[i].key = env[j].key => i = j

InImage(a, v) ==
  /\ v.key = "PATH" => "abs" \notin Range(v.places)
  /\ v.key = "LD_LIBRARY_PATH" /\ a.libs => Head(v.places) = "rootfs"

(* In rootfs-prefix mode a dynamic program or shell is loaded by the       *)
(* image's linker if the image has it, for the host's would bring the      *)
(* host's libc; and no entry of PATH and no first entry of LD_LIBRARY_PATH *)
(* leads out of the image, for an app that sets each variable once and     *)
(* spells it PATH (process.go:98-170, 263-311).                            *)
NothingOfHost ==
  app.mode = "prefix" =>
    /\ Found(app) /\ NeedsLinker(app) /\ app.linker =>
         StartPlan(app).path = Linker
    /\ SetsOnce(app.env) /\ ~Has(app.env, {"Path"}) =>
         /\ Has(StartEnv(app), {"PATH"})
         /\ \A v \in Range(StartEnv(app)) : InImage(app, v)
=============================================================================
