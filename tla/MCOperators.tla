---------------------------- MODULE MCOperators ----------------------------
(* Two keys, two wrappers of which one has a token contract that only      *)
(* calls itself after an asset, and commands of every tool, with the       *)
(* vault's key, with another one, and with an entry missing.               *)
EXTENDS Operators

Commanded(tool, key, signer, arg) ==
    [tool |-> tool, key |-> key, signer |-> signer, arg |-> arg,
     filled |-> TRUE]

MCRotations ==
    {Commanded(tool, "a", signer, "b") : tool \in Rotations, signer \in Keys}
    \cup {Commanded("transferAdmin", "b", "b", "a"),
          Commanded("setAdmin", "b", "b", "a"),
          Commanded("setAdmin", "a", "a", "a"),
          Commanded("transferAdmin", "a", "a", "a"),
          [Commanded("setAdmin", "a", "a", "b") EXCEPT !.filled = FALSE]}

MCPausing ==
    {Commanded("pause", "a", "a", "a"), Commanded("unpause", "a", "a", "a")}

MCActions ==
    {Commanded("block", "a", "a", "a"), Commanded("block", "b", "b", "a"),
     Commanded("unblock", "b", "b", "a"),
     Commanded("mint", "a", "a", "a"), Commanded("mint", "a", "a", "b"),
     Commanded("burn", "a", "a", "a")}

MCAccounts ==
    {Commanded("updateHomeDomain", "a", signer, domain) :
         signer \in Keys, domain \in Domains}
    \cup {Commanded("trustline", "b", "b", "gusd")}
    \cup {Commanded("trustlineSelf", "b", "b", w) : w \in Wrappers}

MCCommands == MCRotations \cup MCPausing \cup MCActions \cup MCAccounts

MCSacToken == [w \in Wrappers |-> IF w = "gateway" THEN "sac" ELSE "lookalike"]

MCNameOf == [c \in {"sac", "lookalike"} |-> "gusd"]

MCSacOf == [a \in Assets |-> IF a = "gusd" THEN "sac" ELSE "otherSac"]
=============================================================================
