---------------------------- MODULE MCRpcClient ----------------------------
(***************************************************************************)
(* Small instance of RpcClient: the configurations that differ in what     *)
(* they authenticate with, where it comes from, and their limits.          *)
(***************************************************************************)
EXTENDS RpcClient

Unset == [k \in Key |-> "none"]
Password(value) == [Unset EXCEPT !["RPC_USER"] = "node", !["RPC_PASS"] = value]
CookiePath == [Unset EXCEPT !["RPC_COOKIE_FILE"] = "node"]
Plain == [env |-> Unset, file |-> Unset, timeout |-> "long", cut |-> FALSE]

MCSettings ==
    {Plain,                                                   \* cookie found at start
     [Plain EXCEPT !.env = CookiePath, !.timeout = "none"],
     [Plain EXCEPT !.env = Password("node"), !.timeout = "none"],
     [Plain EXCEPT !.env = Password("node"), !.file = Password("old"), !.timeout = "short"],
     [Plain EXCEPT !.env = CookiePath, !.file = Password("old")],
     [Plain EXCEPT !.file = Password("node"), !.cut = TRUE],
     [Plain EXCEPT !.file = Password("old")]}
=============================================================================
