------------------------------- MODULE MCDns -------------------------------
(***************************************************************************)
(* gotun-dns with its defaults, two queries in flight, one name of each    *)
(* class.  Handlers meet in the context, the datagram buffer and the time  *)
(* only, and the transport of a client has no part in the choice of the    *)
(* path: every form of query is asked once, over one of the transports.    *)
(***************************************************************************)
EXTENDS DnsServer

CONSTANTS c1, c2

MCPlain == { << "direct", FALSE >> }
MCDestinations == MCPlain \cup {Resolver}
MCClients == {c1, c2}
MCNames == { << "lavka", "ru" >>, << "ru", "com" >> }
MCDirectSuffixes == { << "ru" >> }

Asking(form, name) == [form |-> form, name |-> name]
MCAsks == [c \in MCClients |->
             IF c = c1
             THEN { << Asking("garbage", NoName), "udp" >>, << Asking("multi", NoName), "tcp" >>,
                    << Asking("query", << "lavka", "ru" >>), "udp" >>,
                    << Asking("query", << "ru", "com" >>), "tcp" >> }
             ELSE { << Asking("query", << "ru", "com" >>), "udp" >> }]

(* One client for each socket.                                             *)
MCOnePerSocket == [c \in MCClients |->
                     { << Asking("query", << "ru", "com" >>), IF c = c1 THEN "tcp" ELSE "udp" >> }]
=============================================================================
