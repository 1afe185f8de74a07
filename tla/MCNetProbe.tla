----------------------------- MODULE MCNetProbe -----------------------------
(* Model values for NetProbe: one descriptor, a web server, a name server, *)
(* a local socket, and one server name.                                    *)
EXTENDS NetProbe

CONSTANTS agent, host, t1, t2, f1, web, dns, unix, sni

ThreePids == {agent, host, t1}
OneFd == {f1}
AllPeers == {web, dns, unix}
WebOnly == {web}
DnsOnly == {dns}
UnixOnly == {unix}
OneName == {sni}
NoPeers == {}
=============================================================================
