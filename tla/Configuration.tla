--------------------------- MODULE Configuration ---------------------------
(***************************************************************************)
(* How the configuration is read (config/config.go): the names of the      *)
(* tests from the command line, the keys of an INI file in a fixed order,  *)
(* each with its own rule.  The first thing wrong ends the start.          *)
(*                                                                         *)
(* A value of the INI file is what the reader can make of it: [is, n],     *)
(* where is tells whether the key is absent, its value empty, an integer   *)
(* n, a Boolean word, a log level, or any other text.  A name on the       *)
(* command line is a name of a test, a different spelling of it being the  *)
(* same name, or the blank between two commas.                             *)
(***************************************************************************)
EXTENDS Integers, SequencesExt, Selection

Blank == "blank"

(* Blanks are dropped; case and surrounding space were no part of a name.  *)
TestNames(raw) == Selected(raw, ToSet(raw) \ {Blank})

PercentKeys == {"area_threshold", "ks2pvalue_threshold"}
BoolKeys == {"send_mobile_stats", "result", "confirmation_replays",
             "use_default_thresholds"}
TextKeys == {"server_display", "extra_string", "user_config_file",
             "tests_config_file", "server_cert_file", "replays_dir",
             "results_ui_dir", "results_log_dir", "info_file"}
Keys     == PercentKeys \cup BoolKeys \cup TextKeys \cup {"num_servers", "log_level"}

GetString(raw) == raw.is \notin {"absent", "empty"}

GetLogLevel(raw) == GetString(raw) /\ raw.is = "level"

GetInt(raw, low, high) == raw.is = "int" /\ low <= raw.n /\ raw.n <= high

(* The INI library takes 1 and 0 for Booleans too.                         *)
GetBool(raw) == raw.is = "bool" \/ (raw.is = "int" /\ raw.n \in {0, 1})

(* "we are limited to 4 servers because MLab returns only 4 servers".      *)
Accepted(key, raw) ==
  CASE key = "num_servers"    -> GetInt(raw, 1, 4)
    [] key \in PercentKeys    -> GetInt(raw, 0, 100)
    [] key \in BoolKeys       -> GetBool(raw)
    [] key = "log_level"      -> GetLogLevel(raw)
    [] key \in TextKeys       -> GetString(raw)

(* New succeeds if there is a name and no key is refused.                  *)
NewSucceeds(raw, file) ==
  TestNames(raw) # <<>> /\ \A key \in Keys : Accepted(key, file[key])

=============================================================================
