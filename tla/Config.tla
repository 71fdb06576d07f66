-------------------------------- MODULE Config --------------------------------
(***************************************************************************)
(* The configuration (src/config): what its files say of the coins, and    *)
(* the document it is read from and written to.  An object of JSON is a    *)
(* function from the names of its members to their values.                 *)
(***************************************************************************)
EXTENDS Integers, Sequences, FiniteSetsExt, Objects

CONSTANTS
    DefaultDecimals,  \* 8: of a coin that is no token
    EtomicDecimals,   \* 18: of a token that does not say
    FiatDecimals,     \* 2: of EUR and USD
    Unreadable        \* no document: reading it throws

ASSUME DecimalsAssumption ==
    DefaultDecimals \in Nat /\ EtomicDecimals \in Nat /\ FiatDecimals \in Nat

-------------------------------------------------------------------------------
(* coins.json and the electrum files.                                       *)

\* decimals is read of tokens only
NbDecimals(entry) ==
    IF "etomic" \notin DOMAIN entry THEN DefaultDecimals
    ELSE IF "decimals" \in DOMAIN entry THEN entry["decimals"] ELSE EtomicDecimals

ElectrumServer == [protocol |-> "TCP", disable_cert_verification |-> FALSE]

\* extract_from_electrum_file; an optional member that is there replaces its default
ServersOf(file) == [i \in DOMAIN file |-> Merged(file[i], ElectrumServer)]

\* electrums: the files of assets/electrums
CoinInfo(entry, electrums) ==
    LET compatible == "mm2" \in DOMAIN entry
        electrum == compatible /\ entry["coin"] \in DOMAIN electrums
    IN  [nb_decimals |-> NbDecimals(entry),
         is_mm2_compatible |-> compatible,
         is_electrum_compatible |-> electrum,
         servers_electrum |-> IF electrum THEN ServersOf(electrums[entry["coin"]]) ELSE <<>>]

FiatInfo == [nb_decimals |-> FiatDecimals, is_mm2_compatible |-> FALSE,
             is_electrum_compatible |-> FALSE, servers_electrum |-> <<>>]

\* fill_with_coins_cfg: emplace keeps the first entry of a coin
CoinInfos(entries, electrums) ==
    LET named(coin) == {i \in DOMAIN entries : entries[i]["coin"] = coin}
    IN  Merged([coin \in {entries[i]["coin"] : i \in DOMAIN entries} |->
                   CoinInfo(entries[Min(named(coin))], electrums)],
               [coin \in {"EUR", "USD"} |-> FiatInfo])

-------------------------------------------------------------------------------
(* mmbot_config.json.                                                       *)

\* A platform: an endpoint and an optional key; an exchange: an endpoint and keys
ReadPlatform(j) == IF "price_endpoint" \in DOMAIN j
                   THEN Restrict(j, {"price_endpoint", "price_api_key"} \cap DOMAIN j)
                   ELSE Unreadable
CexMembers == {"cex_endpoint", "cex_api_public_key", "cex_api_private_key"}
ReadCex(j) == IF CexMembers \subseteq DOMAIN j THEN Restrict(j, CexMembers) ELSE Unreadable

ReadAll(registry, read(_)) == [name \in DOMAIN registry |-> read(registry[name])]
AllRead(registry) == Unreadable \notin Range(registry)

\* The default of mmbot::config, the password of mm2 aside
DefaultConfig == [cex_registry |-> <<>>, price_registry |-> <<>>, http_port |-> 0]

ReadConfig(j) ==
    IF ~({"cex_infos_registry", "price_infos_registry", "http_port"} \subseteq DOMAIN j)
    THEN Unreadable
    ELSE LET exchanges == ReadAll(j["cex_infos_registry"], ReadCex)
             platforms == ReadAll(j["price_infos_registry"], ReadPlatform)
         IN  IF AllRead(exchanges) /\ AllRead(platforms)
             THEN [cex_registry |-> exchanges, price_registry |-> platforms,
                   http_port |-> j["http_port"]]
             ELSE Unreadable

WriteCex(cfg) == Restrict(cfg, CexMembers)
WritePlatform(cfg) == Restrict(cfg, {"price_endpoint", "price_api_key"} \cap DOMAIN cfg)

\* Mutant: http_port is not written
WithoutPort(cfg) ==
    [cex_infos_registry |-> <<>>, price_infos_registry |-> <<>>]

\* The registries are written under other names than they are read from
WriteConfig(cfg) ==
    LET always == [cex_infos_registry |-> <<>>, price_infos_registry |-> <<>>,
                   http_port |-> cfg.http_port]
        exchanges == IF cfg.cex_registry = <<>> THEN <<>>
                     ELSE Single("cex_infos", ReadAll(cfg.cex_registry, WriteCex))
        platforms == IF cfg.price_registry = <<>> THEN <<>>
                     ELSE Single("price_infos", ReadAll(cfg.price_registry, WritePlatform))
    IN  Merged(always, Merged(exchanges, platforms))

\* operator==, which compares neither the coins nor, here, the password of mm2
SamePlatform(a, b) ==
    LET key(p) == IF "price_api_key" \in DOMAIN p THEN {p["price_api_key"]} ELSE {}
    IN  a["price_endpoint"] = b["price_endpoint"] /\ key(a) = key(b)
SameCex(a, b) == \A f \in CexMembers : a[f] = b[f]
SameRegistry(a, b, same(_, _)) ==
    DOMAIN a = DOMAIN b /\ \A name \in DOMAIN a : same(a[name], b[name])
SameConfig(a, b) ==
    /\ SameRegistry(a.cex_registry, b.cex_registry, SameCex)
    /\ SameRegistry(a.price_registry, b.price_registry, SamePlatform)
    /\ a.http_port = b.http_port
===============================================================================
