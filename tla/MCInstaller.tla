---------------------------- MODULE MCInstaller ----------------------------
(* Small instances of Installer for TLC. *)
EXTENDS Installer

CONSTANTS a1, a2

Wish(password, stats, https) == [password |-> password, stats |-> stats, https |-> https]
Named(ip, name, cert)        == [ip |-> ip, name |-> name, cert |-> cert]

MCWishes == {Wish(1, TRUE, "auto"), Wish(2, TRUE, "auto"), Wish(1, FALSE, "off")}
MCNewPassword == {Wish(1, TRUE, "auto"), Wish(2, TRUE, "auto")}
MCHosts  == {Named(a1, TRUE, "due"), Named(a2, FALSE, "none")}
=============================================================================
