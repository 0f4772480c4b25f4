---------------------------- MODULE MCToolchain -----------------------------
(* Three packages in two versions.  Version 2 of lib needs version 2 of app, *)
(* which needs it in turn; net needs version 1 of lib, and its version 2     *)
(* claims a namespace of app.  The directory loop includes itself.           *)
EXTENDS Toolchain

Dep(n, v) == [name |-> n, version |-> v]
Desc(deps, spaces) == [valid |-> TRUE, deps |-> deps, spaces |-> spaces]
Inc(n, v) == [name |-> n, version |-> v, path |-> ""]
IncPath(p) == [name |-> p, version |-> 0, path |-> p]

MCDescriptor ==
    [app |-> <<Desc(<<Dep("lib", 1)>>, {"app"}), Desc(<<Dep("lib", 2)>>, {"app"})>>,
     lib |-> <<Desc(<<>>, {"lib"}), Desc(<<Dep("app", 2)>>, {"lib"})>>,
     net |-> <<Desc(<<Dep("lib", 1)>>, {"net"}), Desc(<<>>, {"app"})>>]
Fresh(includes) == [includes |-> includes, entries |-> <<>>,
                    tree |-> [p \in Packages |-> NoDir]]
Restored == [includes |-> <<Inc("lib", 0)>>,
             entries |-> <<[name |-> "lib", version |-> 1, local |-> FALSE, content |-> 1]>>,
             tree |-> [p \in Packages |-> IF p = "lib" THEN 1 ELSE NoDir]]
MCProjects == {Fresh(<<Inc("lib", 0), Inc("net", 0)>>), Fresh(<<IncPath("sub")>>),
               Fresh(<<IncPath("loop")>>), Fresh(<<IncPath("odd")>>), Restored}
MCLocalManifest == [sub |-> <<Inc("lib", 1), IncPath("gone")>>, gone |-> "none",
                    loop |-> <<IncPath("loop")>>, odd |-> <<[path |-> "odd"]>>]
MCRegistries ==
    {[app |-> [default |-> NoVersion, published |-> <<1, 2>>],
      lib |-> [default |-> 2, published |-> <<1, 2>>],
      net |-> [default |-> NoVersion, published |-> <<1>>]]}
MCAddSpecs == {<<"app", 0>>, <<"app", 2>>, <<"net", 2>>}
MCOverrides == {<<"lib", "local", 2>>, <<"net", "shared", MissingDir>>}
MCBuilds == {<<"project", TRUE>>, <<"aos", FALSE>>}
MCToolFiles == [app |-> <<{"app"}, {"app"}>>, lib |-> <<{}, {"app"}>>,
                net |-> <<{}, {}>>]
MCEntryImports == <<{"lib"}, {"net"}>>
MCPackageImports ==
    [p \in Packages |-> [c \in Versions \cup {FreshClone} |->
        IF p = "net" /\ c = 1 THEN {"lib"} ELSE {}]]
=============================================================================
