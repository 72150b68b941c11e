---------------------------- MODULE LuaPackageLib ----------------------------
(***************************************************************************)
(* require (loadlib.c), with the loader of package.preload, where the host *)
(* puts cjson (lua_extensions.c).  The other loaders look for files, and   *)
(* the application's directories have none.  The tables of this module are *)
(* read without metamethods.                                               *)
(***************************************************************************)
EXTENDS LuaBaseLib

(* The tables luaL_openlibs makes: see LibsOpen in LuaDo. *)
PackageTable == Table(6)
Loaded       == Table(7)

FieldOf(m, t, name) == IF IsTable(t) THEN RawGet(m, t, Str(name)) ELSE Nil

(* What stands in package.loaded while a module is being loaded. *)
Sentinel == <<"userdata", 0>>

LoaderPreload(m, args) ==
    LET preload == FieldOf(m, PackageTable, "preload")
        loader  == RawGet(m, preload, AsString(args[1]))
    IN  IF args = <<>> \/ AsString(args[1])[1] # "string" THEN BadArg(m)
        ELSE IF ~IsTable(preload) THEN LError(m, "'package.preload' must be a table")
        ELSE Give(m, <<IF loader = Nil THEN Str("no field package.preload") ELSE loader>>)

(* loader_Lua, loader_C and loader_Croot, where there is no file. *)
LoaderNone(m, args) == Give(m, <<Str("no file")>>)

(* The i-th loader is asked. *)
AskLoader(m, name, i) ==
    LET loaders == FieldOf(m, PackageTable, "loaders")
        loader  == RawGet(m, loaders, Num(i))
    IN  IF ~IsTable(loaders) THEN LError(m, "'package.loaders' must be a table")
        ELSE IF loader = Nil THEN LError(m, "module not found")
        ELSE CallBack(m, [at |-> "loader", name |-> name, i |-> i], loader, <<name>>)

SetLoaded(m, name, v) == RawSet(m, Loaded, name, v)

(* A loader has answered, or the module has been run. *)
RequireBack(m, k, v) ==
    LET n == IF v = Nil THEN m ELSE SetLoaded(m, k.name, v)
        result == RawGet(n, Loaded, k.name)
    IN  IF k.at = "loader" /\ ~IsFunction(v) THEN AskLoader(m, k.name, k.i + 1)
        ELSE IF k.at = "loader"
        THEN CallBack(SetLoaded(m, k.name, Sentinel), [k EXCEPT !.at = "module"], v, <<k.name>>)
        ELSE IF result = Sentinel THEN Give(SetLoaded(n, k.name, Bool(TRUE)), <<Bool(TRUE)>>)
        ELSE Give(n, <<result>>)

Require(m, args) ==
    LET name == AsString(Arg(args, 1))
        v    == RawGet(m, Loaded, name)
    IN  IF name[1] # "string" THEN BadArg(m)
        ELSE IF v = Sentinel THEN LError(m, "loop or previous error loading module")
        ELSE IF ~Falsy(v) THEN Give(m, <<v>>)
        ELSE AskLoader(m, name, 1)

PackageFuncs == <<"require", "preload", "noloader">>
PackageCall(m, name, args) ==
    CASE name = "require"  -> Require(m, args)
      [] name = "preload"  -> LoaderPreload(m, args)
      [] OTHER             -> LoaderNone(m, args)
=============================================================================
