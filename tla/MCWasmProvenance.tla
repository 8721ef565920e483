-------------------------- MODULE MCWasmProvenance --------------------------
(* Two releases and a build of somebody's own.                             *)
EXTENDS WasmProvenance

MCBuildOf == [t \in Tags |-> IF t = "v1" THEN "one" ELSE "two"]

Set(tool, tag, path, allow, cross, expected, homeDomain) ==
    [tool |-> tool, tag |-> tag, path |-> path, allow |-> allow,
     cross |-> cross, expected |-> expected, homeDomain |-> homeDomain]

MCSettings ==
    {Set("sdk", tag, path, path, cross, expected, "m0.org") :
        tag \in {"v1", None}, path \in BOOLEAN, cross \in BOOLEAN,
        expected \in {"one", "mine"}}
    \cup {Set("sdk", "v1", FALSE, FALSE, TRUE, "two", "m0.org"),
          Set("sdk", None, TRUE, FALSE, FALSE, "mine", "blank"),
          Set("sdk", "v1", FALSE, FALSE, FALSE, "one", "empty"),
          Set("shell", "v1", FALSE, FALSE, FALSE, None, "m0.org"),
          Set("shell", "v2", FALSE, FALSE, FALSE, None, "unset"),
          Set("shell", "v1", FALSE, FALSE, FALSE, None, "other"),
          Set("shell", "v1", FALSE, FALSE, FALSE, "one", "m0.org"),
          Set("shell", None, TRUE, TRUE, FALSE, None, "m0.org")}

MCShell == {Set("shell", tag, FALSE, FALSE, FALSE, None, "m0.org") :
               tag \in {"v1", "v2"}}
=============================================================================
