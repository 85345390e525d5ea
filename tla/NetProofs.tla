----------------------------- MODULE NetProofs ------------------------------
(* Theorems about kernel/dhcp.c and dns.c over the ports of net.c: whose    *)
(* answers the machine takes, whatever is lost, late, repeated or reordered.*)
EXTENDS Net, TLAPS

DhcpKinds == {"offer", "ack", "nak"}

\* Frames carry numbers this machine has already used, the frames queued are
\* frames that were sent, and while a transaction runs every grant that bears
\* its number is one of those the servers made in it.
Leases ==
  /\ xid \in Nat
  /\ queue \in Seq(air)
  /\ \A m \in air : m.kind \in DhcpKinds => m.xid \in Nat /\ m.xid <= xid
  /\ pc \in {"offer", "ack"} =>
       \A m \in air : m.kind = "ack" /\ m.xid = xid =>
                        [ip |-> m.ip, server |-> m.server] \in leased
  /\ ConfigWhole

\* Every answer to a question bears that question's number, and the one that
\* is out asks for `asked'.
Questions ==
  /\ xid \in Nat /\ queue \in Seq(air)
  /\ \A m \in air : m.kind = "dns" => /\ m.id \in Nat /\ m.id <= xid
                                      /\ pc = "dns" /\ m.id = xid => m.name = asked
  /\ names \in Seq([key : Hosts, ip : {Address(h) : h \in Hosts}])
  /\ asked \in Hosts
  /\ NamesTrue

LEMMA TailIn == ASSUME NEW S, NEW q \in Seq(S), q # <<>>
                PROVE  Head(q) \in S /\ Tail(q) \in Seq(S)
  OBVIOUS

LEMMA SeqGrows == ASSUME NEW S, NEW T, S \subseteq T, NEW q \in Seq(S) PROVE q \in Seq(T)
  OBVIOUS

\* What a wait leaves queued was sent.
LEMMA QueueSent ==
  ASSUME queue \in Seq(air), [NetNext]_netVars
  PROVE  queue' \in Seq(air')
<1>1. air \subseteq air'
  <2>1. ASSUME SendDiscover PROVE air \subseteq air'
    BY <2>1 DEF SendDiscover
  <2>2. ASSUME NEW ip, NEW s, SendRequest(ip, s) PROVE air \subseteq air'
    BY <2>2 DEF SendRequest
  <2>3. ASSUME NEW h \in Hosts, dns_resolve(h) PROVE air \subseteq air'
    BY <2>3 DEF dns_resolve
  <2> QED
    BY <2>1, <2>2, <2>3 DEF NetNext, netVars, netdev_receive, ArpExpire, dhcp_configure, WaitOn,
       TakeOffer, TakeAck, WaitTimesOut, TakeReply, DnsTimesOut
<1>2. queue' \in Seq(air)
  <2>1. CASE netdev_receive
    <3>1. PICK m \in air : queue' = queue \/ queue' = Append(queue, m)
      BY <2>1 DEF netdev_receive, udp_deliver
    <3> QED
      BY <3>1
  <2>2. ASSUME queue # <<>>, queue' = Tail(queue) PROVE queue' \in Seq(air)
    BY <2>2, TailIn
  <2>3. <<>> \in Seq(air)
    OBVIOUS
  <2> QED
    BY <2>1, <2>2, <2>3 DEF NetNext, netVars, ArpExpire, dhcp_configure, WaitOn, wait_for,
       TakeOffer, TakeAck, WaitTimesOut, dns_resolve, TakeReply, DnsTimesOut, net_udp_bind,
       net_udp_unbind
<1> QED
  BY <1>1, <1>2, SeqGrows

LEMMA LeasesInit == NetInit => Leases
  BY DEF NetInit, Leases, ConfigWhole, Unconfigured, DhcpKinds

LEMMA LeasesStep == ASSUME Leases, [NetNext]_netVars PROVE Leases'
<1>0. queue' \in Seq(air')
  BY QueueSent DEF Leases
<1> USE <1>0
<1>1. CASE netdev_receive
  BY <1>1 DEF netdev_receive, Leases, ConfigWhole
<1>2. CASE ArpExpire
  BY <1>2 DEF ArpExpire, Leases, ConfigWhole
<1>3. CASE dhcp_configure
  <2>1. \A m \in air' : m \in air \/ (m.kind = "offer" /\ m.xid = xid')
    BY <1>3 DEF dhcp_configure, SendDiscover, Offers
  <2> QED
    BY <1>3, <2>1 DEF dhcp_configure, Leases, ConfigWhole, Unconfigured, DhcpKinds
<1>4. ASSUME NEW want, WaitOn(want) PROVE Leases'
  BY <1>4 DEF WaitOn, Leases, ConfigWhole
<1>5. CASE TakeOffer
  <2>1. PICK m : /\ air' = air \cup {m} /\ m.kind \in {"ack", "nak"} /\ m.xid = xid
                 /\ leased \subseteq leased'
                 /\ m.kind = "ack" => [ip |-> m.ip, server |-> m.server] \in leased'
    BY <1>5 DEF TakeOffer, SendRequest
  <2> QED
    BY <1>5, <2>1 DEF TakeOffer, wait_for, Leases, ConfigWhole, DhcpKinds
<1>6. CASE TakeAck
  <2>1. Head(queue) \in air
    BY <1>6, TailIn DEF TakeAck, Leases
  <2>2. [ip |-> Head(queue).ip, server |-> Head(queue).server] \in leased
    BY <1>6, <2>1 DEF TakeAck, Wanted, parse, Leases
  <2> QED
    BY <1>6, <2>2 DEF TakeAck, Wanted, Parsed, Leases, ConfigWhole
<1>7. CASE WaitTimesOut
  <2>1. \A m \in air' : m \in air \/ (m.kind = "offer" /\ m.xid = xid')
    BY <1>7 DEF WaitTimesOut, SendDiscover, Offers
  <2> QED
    BY <1>7, <2>1 DEF WaitTimesOut, Leases, ConfigWhole, DhcpKinds
<1>8. ASSUME NEW h \in Hosts, dns_resolve(h) PROVE Leases'
  <2>1. \A m \in air' : m \in air \/ m.kind \in {"dns", "arp"}
    BY <1>8 DEF dns_resolve
  <2> QED
    BY <1>8, <2>1 DEF dns_resolve, Leases, ConfigWhole, DhcpKinds
<1>9. CASE TakeReply
  BY <1>9 DEF TakeReply, Leases, ConfigWhole
<1>10. CASE DnsTimesOut
  BY <1>10 DEF DnsTimesOut, Leases, ConfigWhole
<1>11. CASE UNCHANGED netVars
  BY <1>11 DEF netVars, Leases, ConfigWhole
<1> QED
  BY <1>1, <1>2, <1>3, <1>4, <1>5, <1>6, <1>7, <1>8, <1>9, <1>10, <1>11 DEF NetNext

\* The address in use was granted in the last transaction, by the server whose
\* gateway and name server the machine uses: for any number of servers, calls
\* and attempts, and any loss, delay, repetition and order of their answers
\* (wait_for, parse and dhcp_configure).
THEOREM ConfigFromOneServer == NetSpec => []ConfigWhole
<1>1. Leases => ConfigWhole
  BY DEF Leases
<1> QED
  BY <1>1, LeasesInit, LeasesStep, PTL DEF NetSpec

-----------------------------------------------------------------------------
LEMMA SmallRemainder == ASSUME NEW x \in Nat, NEW n \in Nat, x < n PROVE x % n = x
  OBVIOUS

LEMMA QuestionsInit == ASSUME Hosts # {}, NetInit PROVE Questions
  BY DEF NetInit, Questions, NamesTrue

\* The cache, with its oldest entry perhaps gone and an answer at its end.
LEMMA RememberedTrue ==
  ASSUME NamesTrue, NEW h \in Hosts,
         names \in Seq([key : Hosts, ip : {Address(x) : x \in Hosts}]),
         names' = Remembered(h, Address(h))
  PROVE  /\ NamesTrue'
         /\ names' \in Seq([key : Hosts, ip : {Address(x) : x \in Hosts}])
<1> DEFINE E == [key : Hosts, ip : {Address(x) : x \in Hosts}]
           e == [key |-> h, ip |-> Address(h)]
           kept == Room(names, DnsCache)
<1>1. e \in E /\ e.ip = Address(e.key)
  OBVIOUS
<1>2. kept \in Seq(E) /\ \A i \in DOMAIN kept : kept[i].ip = Address(kept[i].key)
  BY DEF Room, DnsCache, NamesTrue
<1>3. names' = Append(kept, e)
  BY DEF Remembered
<1> HIDE DEF E, e, kept
<1>4. names' \in Seq(E) /\ \A i \in DOMAIN names' : names'[i].ip = Address(names'[i].key)
  BY <1>1, <1>2, <1>3
<1> QED
  BY <1>4 DEF NamesTrue, E

LEMMA QuestionsStep ==
  ASSUME IdMod \in Nat, Questions, [NetNext]_netVars, xid' < IdMod
  PROVE  Questions'
<1>0. queue' \in Seq(air')
  BY QueueSent DEF Questions
<1> USE <1>0
<1>1. CASE netdev_receive
  BY <1>1 DEF netdev_receive, Questions, NamesTrue
<1>2. CASE ArpExpire
  BY <1>2 DEF ArpExpire, Questions, NamesTrue
<1>3. CASE dhcp_configure
  <2>1. \A m \in air' : m \in air \/ m.kind = "offer"
    BY <1>3 DEF dhcp_configure, SendDiscover, Offers
  <2> QED
    BY <1>3, <2>1 DEF dhcp_configure, Questions, NamesTrue
<1>4. ASSUME NEW want, WaitOn(want) PROVE Questions'
  BY <1>4 DEF WaitOn, Questions, NamesTrue
<1>5. CASE TakeOffer
  <2>1. \A m \in air' : m \in air \/ m.kind \in {"ack", "nak"}
    BY <1>5 DEF TakeOffer, SendRequest
  <2> QED
    BY <1>5, <2>1 DEF TakeOffer, wait_for, Questions, NamesTrue
<1>6. CASE TakeAck
  BY <1>6 DEF TakeAck, Questions, NamesTrue
<1>7. CASE WaitTimesOut
  <2>1. \A m \in air' : m \in air \/ m.kind = "offer"
    BY <1>7 DEF WaitTimesOut, SendDiscover, Offers
  <2> QED
    BY <1>7, <2>1 DEF WaitTimesOut, Questions, NamesTrue
<1>8. ASSUME NEW h \in Hosts, dns_resolve(h) PROVE Questions'
  <2>1. DnsId' = xid'
    BY <1>8, SmallRemainder DEF dns_resolve, Questions, DnsId
  <2>2. \A m \in air' :
          m \in air \/ m.kind = "arp" \/ (m.kind = "dns" /\ m.id = xid' /\ m.name = h)
    BY <1>8, <2>1 DEF dns_resolve
  <2> QED
    BY <1>8, <2>2 DEF dns_resolve, Questions, NamesTrue
<1>9. CASE TakeReply
  <2>1. Head(queue) \in air
    BY <1>9, TailIn DEF TakeReply, Questions
  <2>2. CASE Answers(Head(queue))
    <3>1. DnsId = xid
      BY <1>9, SmallRemainder DEF TakeReply, Questions, DnsId
    <3>2. Head(queue).name = asked
      BY <1>9, <2>1, <2>2, <3>1 DEF TakeReply, Answers, Questions
    <3>3. CASE names' = names
      BY <1>9, <2>2, <3>3 DEF TakeReply, Questions, NamesTrue
    <3>4. CASE names' = Remembered(asked, Address(asked))
      <4>1. /\ NamesTrue'
            /\ names' \in Seq([key : Hosts, ip : {Address(x) : x \in Hosts}])
        BY <3>4, RememberedTrue DEF Questions
      <4> QED
        BY <1>9, <2>2, <4>1 DEF TakeReply, Questions
    <3> QED
      BY <1>9, <2>2, <3>2, <3>3, <3>4 DEF TakeReply
  <2>3. CASE ~Answers(Head(queue))
    BY <1>9, <2>3 DEF TakeReply, Questions, NamesTrue
  <2> QED
    BY <2>2, <2>3
<1>10. CASE DnsTimesOut
  BY <1>10 DEF DnsTimesOut, Questions, NamesTrue
<1>11. CASE UNCHANGED netVars
  BY <1>11 DEF netVars, Questions, NamesTrue
<1> QED
  BY <1>1, <1>2, <1>3, <1>4, <1>5, <1>6, <1>7, <1>8, <1>9, <1>10, <1>11 DEF NetNext

\* Until the numbers of its questions come round again, the machine caches for
\* a name only that name's own address, however late or often the answers to
\* earlier questions come (dns_resolve).
THEOREM NamesHaveTheirAddress ==
  ASSUME IdMod \in Nat \ {0}, Hosts # {}
  PROVE  NetSpec => [](xid < IdMod => NamesTrue)
<1> DEFINE I == xid \in Nat /\ (xid < IdMod => Questions)
<1>1. NetInit => I
  BY QuestionsInit DEF NetInit
<1>2. I /\ [NetNext]_netVars => I'
  <2> SUFFICES ASSUME I, [NetNext]_netVars PROVE I'
    OBVIOUS
  <2>1. xid' = xid \/ xid' = xid + 1
    BY DEF NetNext, netVars, netdev_receive, ArpExpire, dhcp_configure, WaitOn,
       TakeOffer, TakeAck, WaitTimesOut, dns_resolve, TakeReply, DnsTimesOut
  <2>2. xid' \in Nat /\ xid' >= xid
    BY <2>1
  <2> QED
    BY <2>2, QuestionsStep
<1>3. I => (xid < IdMod => NamesTrue)
  BY DEF Questions
<1> QED
  BY <1>1, <1>2, <1>3, PTL DEF NetSpec
=============================================================================
