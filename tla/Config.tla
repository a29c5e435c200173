------------------------------- MODULE Config -------------------------------
(***************************************************************************)
(* The configuration, internal/config/config.go: Parse starts from the     *)
(* defaults and lets the JSON file, the flags and the environment          *)
(* overwrite it in this order.  The sources differ in what counts as given:*)
(* a variable or a flag counts when it is set, to the empty string as well,*)
(* an entry of the file when it is not empty, and ENABLE_HTTPS only when   *)
(* it reads as a truth value.                                              *)
(*                                                                         *)
(* A string setting is "" or the name of the source it comes from; the     *)
(* several names of one flag (-d, -database-dsn, ...) are one variable of  *)
(* Parse and one flag here.  A flag that does not parse ends the program   *)
(* with its usage and is not a source.                                     *)
(***************************************************************************)
EXTENDS Naturals

StringSettings == {"ServerAddr", "BaseURL", "FileStoragePath", "DatabaseDSN", "AuditFile",
                   "AuditURL", "TrustedSubnet", "GRPCAddr"}
Settings == StringSettings \cup {"EnableHTTPS"}

Absent == "(absent)"

\* What one source may say about a setting named s.
CanSay(s, origin) ==
    {Absent} \cup IF s # "EnableHTTPS" THEN {"", origin}
                  ELSE {"true", "false"} \cup (IF origin = "env" THEN {"junk"} ELSE {})

\* Nothing said about any setting.
Silent == [s \in Settings |-> Absent]

\* All the places Parse reads.  envPath and flagPath name the JSON file;
\* "unreadable" is one that is missing or is no JSON.
Source(env, flags, file, envPath, flagPath) ==
    [env |-> env, flags |-> flags, file |-> file, envPath |-> envPath, flagPath |-> flagPath]

Paths == {Absent, "", "readable", "unreadable"}

Defaults ==
    [s \in Settings |->
        CASE s \in {"ServerAddr", "BaseURL", "FileStoragePath", "GRPCAddr"} -> "default"
          [] s = "EnableHTTPS" -> "false"
          [] OTHER             -> ""]

-----------------------------------------------------------------------------
\* The environment's path replaces the flag's, even by an empty one.
configPath(src) == IF src.envPath # Absent THEN src.envPath ELSE src.flagPath

applyFileConfig(cfg, fc) ==
    [s \in Settings |-> IF fc[s] \notin {Absent, ""} THEN fc[s] ELSE cfg[s]]

applyFlags(cfg, flags) ==
    [s \in Settings |-> IF flags[s] # Absent THEN flags[s] ELSE cfg[s]]

\* A value of ENABLE_HTTPS that ParseBool refuses is passed over.
applyEnv(cfg, env) ==
    [s \in Settings |-> IF env[s] \notin {Absent, "junk"} THEN env[s] ELSE cfg[s]]

\* Mutant: the flags are applied last.
ParseFlagsLast(src) ==
    LET fromFile == IF configPath(src) = "readable" THEN applyFileConfig(Defaults, src.file)
                                                    ELSE Defaults
    IN  applyFlags(applyEnv(fromFile, src.env), src.flags)

\* A file that cannot be read or parsed is passed over without an error.
Parse(src) ==
    LET fromFile == IF configPath(src) = "readable" THEN applyFileConfig(Defaults, src.file)
                                                    ELSE Defaults
    IN  applyEnv(applyFlags(fromFile, src.flags), src.env)

-----------------------------------------------------------------------------
(* Reference: "environment variables > flags > config file > defaults" *)

\* Whether an origin says something about setting s that counts.
Says(src, origin, s) ==
    CASE origin = "env"     -> src.env[s] \notin {Absent, "junk"}
      [] origin = "flag"    -> src.flags[s] # Absent
      [] origin = "file"    -> /\ src.file[s] \notin {Absent, ""}
                               /\ \/ src.envPath = "readable"
                                  \/ src.envPath = Absent /\ src.flagPath = "readable"
      [] origin = "default" -> TRUE

ValueOf(src, origin, s) ==
    CASE origin = "env"     -> src.env[s]
      [] origin = "flag"    -> src.flags[s]
      [] origin = "file"    -> src.file[s]
      [] origin = "default" -> Defaults[s]

Priority == <<"env", "flag", "file", "default">>

\* The value of the first origin in the order of Priority that says something.
Effective(src, s) ==
    LET first == CHOOSE k \in 1..4 : /\ Says(src, Priority[k], s)
                                     /\ \A j \in 1..4 : Says(src, Priority[j], s) => k <= j
    IN  ValueOf(src, Priority[first], s)
=============================================================================
