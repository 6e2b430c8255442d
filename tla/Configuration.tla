--------------------------- MODULE Configuration ---------------------------
(***************************************************************************)
(* The configuration file (config.go).  A file is what is left of its JSON *)
(* after Unmarshal: the switches it mentions, and the numbers it mentions. *)
(* An absent or unreadable file and one that is not JSON are not told      *)
(* apart: both make loadConfigFromPath fail.  The path of the store and    *)
(* the debug flag are left out.                                            *)
(***************************************************************************)
EXTENDS Integers, Functions

CONSTANT Unreadable     \* what is at a path where there is no usable file

\* The pointer-valued keys of ConfigFile, and what toConfig starts from.
DefaultSwitch ==
    [managed |-> TRUE, offline_storage |-> TRUE, offline_retry_enabled |-> TRUE,
     connectivity_check_enabled |-> TRUE, send_heartbeat |-> TRUE]

\* The numeric keys.  Zero, and a key the file does not mention, are the same.
DefaultNumber ==
    [timeout_seconds |-> 10, max_retries |-> 3, min_batch_size |-> 10,
     max_batch_size |-> 500, max_queue_size |-> 1000, target_cpu_percent |-> 70,
     target_mem_percent |-> 80, min_batch_interval_ms |-> 100,
     max_batch_interval_ms |-> 1000, offline_retry_interval_seconds |-> 30,
     offline_retry_limit |-> 5, connectivity_check_interval_seconds |-> 30,
     heartbeat_interval_seconds |-> 30]

Switch == DOMAIN DefaultSwitch
Number == DOMAIN DefaultNumber

\* What only managed mode has a use for.
Feature == Switch \ {"managed"}

IsFile(f) ==
    /\ DOMAIN f = {"switch", "number"}
    /\ DOMAIN f.switch \subseteq Switch /\ f.switch \in [DOMAIN f.switch -> BOOLEAN]
    /\ DOMAIN f.number \subseteq Number /\ f.number \in [DOMAIN f.number -> Int]

\* The two places LoadConfigFile looks at.
IsDisk(d) ==
    /\ DOMAIN d = {"home", "etc"}
    /\ \A p \in DOMAIN d : d[p] = Unreadable \/ IsFile(d[p])

Config == [switch : [Switch -> BOOLEAN], number : [Number -> Int]]

Nothing == [k \in {} |-> 0]

EmptyFile == [switch |-> Nothing, number |-> Nothing]

\* The first of the two places that has a usable file, else an empty file: a
\* broken file in the home directory is passed over without a word.
LoadConfigFile(disk) ==
    IF disk["home"] # Unreadable THEN disk["home"]
    ELSE IF disk["etc"] # Unreadable THEN disk["etc"]
    ELSE EmptyFile

\* A switch counts when it is mentioned, a number when it is positive.
toConfig(file) ==
    [switch |-> [s \in Switch |-> IF s \in DOMAIN file.switch
                                  THEN file.switch[s] ELSE DefaultSwitch[s]],
     number |-> [n \in Number |-> IF n \in DOMAIN file.number /\ file.number[n] > 0
                                  THEN file.number[n] ELSE DefaultNumber[n]]]

\* A headless client runs none of the features of managed mode.
ApplyManagedGating(config) ==
    IF config.switch["managed"] THEN config
    ELSE [config EXCEPT !.switch = [s \in Switch |-> FALSE]]

\* The second list of defaults, which InitializeConfig writes.
GenerateExampleConfig ==
    [switch |-> [managed |-> TRUE, offline_storage |-> TRUE,
                 offline_retry_enabled |-> TRUE,
                 connectivity_check_enabled |-> TRUE, send_heartbeat |-> TRUE],
     number |->
        [timeout_seconds |-> 10, max_retries |-> 3, min_batch_size |-> 10,
         max_batch_size |-> 500, max_queue_size |-> 1000,
         target_cpu_percent |-> 70, target_mem_percent |-> 80,
         min_batch_interval_ms |-> 100, max_batch_interval_ms |-> 1000,
         offline_retry_interval_seconds |-> 30, offline_retry_limit |-> 5,
         connectivity_check_interval_seconds |-> 30,
         heartbeat_interval_seconds |-> 30]]

\* What a file holds once SaveConfigFile has written it: omitempty drops a
\* zero, and keeps a pointer to false.
Saved(file) ==
    [file EXCEPT !.number = Restrict(@, {n \in DOMAIN @ : @[n] # 0})]
=============================================================================
