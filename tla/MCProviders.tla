----------------------------- MODULE MCProviders -----------------------------
(* Instances of Providers for TLC.                                         *)
EXTENDS Providers, TLC

CONSTANTS v1, v2

AllKinds == {"cloudflare", "ovh", "technitium", "webhook", "powerdns", "adguard",
             "pihole5", "pihole6", "dnsmasq", "pfsense", "pfsenseForwarder", "opnsense"}
Shared == AllKinds \ {"dnsmasq", "pfsense", "pfsenseForwarder"}
NoPrefix == {}
ValSymmetry == Permutations(Vals)
=============================================================================
