----------------------------- MODULE MCProcess -----------------------------
(***************************************************************************)
(* Small instances of Process: calls that share a client, and the          *)
(* configurations the process is started with.                             *)
(***************************************************************************)
EXTENDS Process, TLC

CONSTANTS h1, h2, g1, alice, bob

\* Two clients that come over HTTP, one of which uses its token for gRPC too;
\* one client that calls twice.
MCClientOf  == (h1 :> alice) @@ (h2 :> bob) @@ (g1 :> bob)
MCOneClient == (h1 :> alice) @@ (h2 :> alice) @@ (g1 :> alice)

\* The database, the audit file and HTTPS: every step of the start can fail.
FullEnv   == [Silent EXCEPT !["DatabaseDSN"] = "env", !["EnableHTTPS"] = "true"]
FullFlags == [Silent EXCEPT !["AuditFile"] = "flag"]

\* Everything the sources may say about setting s, besides.
About(s) ==
    {Source([FullEnv EXCEPT ![s] = e], [FullFlags EXCEPT ![s] = f], [Silent EXCEPT ![s] = j], ep, fp) :
        e \in CanSay(s, "env"), f \in CanSay(s, "flag"), j \in CanSay(s, "file"),
        ep \in Paths, fp \in Paths}

\* Neither a database nor files: the store in memory.
InMemory == Source([Silent EXCEPT !["FileStoragePath"] = ""], Silent, Silent, Absent, Absent)

MCSources == About("DatabaseDSN") \cup About("EnableHTTPS")

\* After a crash or an exit the process comes back with the store in memory.
MCLaterSources == {InMemory}
=============================================================================
