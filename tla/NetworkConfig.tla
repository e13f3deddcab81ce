---------------------------- MODULE NetworkConfig ----------------------------
(***************************************************************************)
(* The configuration file of the command line tool: at most one entry per  *)
(* network, one of them active, and the emulators of the active one        *)
(* (cli/src/config.rs).                                                    *)
(***************************************************************************)
EXTENDS Integers

Networks == {"bitcoin", "signet", "regtest", "testnet"}

\* An entry is absent, or present and active or not.
Entries == {"absent", "inactive", "active"}

\* get_n's primes.
Prime == [bitcoin |-> 3, signet |-> 5, regtest |-> 7, testnet |-> 11]

\* 3 * c.active as i32, or 1 where there is no entry.
Factor(file, network) ==
    CASE file[network] = "absent" -> 1
      [] file[network] = "inactive" -> 0
      [] file[network] = "active" -> Prime[network]

GetN(file) == Factor(file, "bitcoin") * Factor(file, "signet")
                * Factor(file, "regtest") * Factor(file, "testnet")

\* get_network and check give the same answer from the same number.
GetNetwork(file) ==
    IF GetN(file) = 1 THEN "NoActiveConfig"
    ELSE IF \E n \in Networks : Prime[n] = GetN(file)
    THEN CHOOSE n \in Networks : Prime[n] = GetN(file)
    ELSE "TooManyActiveNetworks"

\* TryFrom<ConfigVerifier> for Config; the other entries are dropped.
Load(file) ==
    LET network == GetNetwork(file)
    IN  IF network \in Networks
        THEN [ok |-> TRUE, network |-> network, active |-> file[network]]
        ELSE [ok |-> FALSE, error |-> network]

\* From<Config> for ConfigVerifier
Save(config) ==
    [n \in Networks |-> IF n = config.network THEN config.active ELSE "absent"]

\* EmulatorConfig::get_emulator, for n emulators.
GetEmulator(n, threshold) ==
    IF n < threshold THEN [ok |-> FALSE, error |-> "Too High Thresh"]
    ELSE IF n = 0 THEN [ok |-> FALSE, error |-> "No Emulators Provided"]
    ELSE IF n = 1 THEN [ok |-> TRUE, federated |-> FALSE, needs |-> 1]
    ELSE [ok |-> TRUE, federated |-> TRUE, needs |-> threshold]
=============================================================================
