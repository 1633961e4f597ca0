------------------------------ MODULE MCSamples ------------------------------
(***************************************************************************)
(* The inputs MCServices gives its components: abox.yaml declarations,     *)
(* image catalogs, archives, guests, rulesets.                             *)
(***************************************************************************)
EXTENDS Integers, Sequences, FiniteSets, TLC

S == INSTANCE Settings WITH Kprobes <- {"execve"}

-----------------------------------------------------------------------------
(* abox.yaml (ConfigFile).                                                 *)

Name(len) == S!Word(len, "letter", "plain")
BaseBox ==
  [name |-> Name(3), user |-> S!NoWord, cpus |-> 2, memory |-> 4096, disk |-> S!Size(20, "G"),
   base |-> "ubuntu", subnet |-> "", upstream |-> S!NoUpstream, mitm |-> {}, conns |-> {},
   private |-> <<>>, ports |-> <<>>, injections |-> <<>>, exceptions |-> <<>>,
   monitored |-> FALSE, monver |-> "", multi |-> {}, kprobes |-> <<>>, policies |-> <<>>,
   provision |-> <<>>, overlay |-> {}, overrides |-> {}]
BaseDoc ==
  [parses |-> TRUE, version |-> [int |-> TRUE, num |-> 1], unknown |-> FALSE,
   mistyped |-> FALSE, second |-> "none", box |-> BaseBox]

Path(comps, kind) == [abs |-> FALSE, comps |-> comps, kind |-> kind]
Api == <<"api", "example">>
Injection(labels, header) ==
  [key |-> Name(3), host |-> S!Host(labels), header |-> header, clean |-> TRUE, path |-> ""]

\* One declaration for each way a setting can be at, or past, its limits.
Boxes ==
  {BaseBox, [BaseBox EXCEPT !.subnet = "mine", !.base = "debian"]}
  \cup {[BaseBox EXCEPT !.name = n] :
          n \in {S!ApplySuffix(Name(60), Name(2)), S!ApplySuffix(Name(60), Name(3)), S!NoWord}}
  \cup {[BaseBox EXCEPT !.user = n] :
          n \in {S!Word(32, "underscore", "hyphen"), S!Word(33, "letter", "plain")}}
  \cup {[BaseBox EXCEPT !.cpus = n] : n \in {0, 128, 129}}
  \cup {[BaseBox EXCEPT !.memory = n] : n \in {255, 256, 262145}}
  \cup {[BaseBox EXCEPT !.disk = n] :
          n \in {S!NoSize, S!Size(11, "T"), S!Size(1, "T"), S!Size(100, "M")}}
  \cup {[BaseBox EXCEPT !.upstream = u] :
          u \in {S!Upstream("ipv4", 0), S!Upstream("name", 5353), S!Upstream("ipv6", 53)}}
  \cup {[BaseBox EXCEPT !.mitm = m, !.conns = c] : m \in {{TRUE}, {FALSE}}, c \in {{}, {0}, {64}}}
  \cup {[BaseBox EXCEPT !.ports = <<p>>] : p \in {0, 443, 65536}}
  \cup {[BaseBox EXCEPT !.private = <<[form |-> f, pad |-> d, ones |-> 8]>>] :
          f \in {"cidr", "blank", "bad"}, d \in BOOLEAN}
  \cup {[BaseBox EXCEPT !.injections = <<Injection(Api, "Authorization"), Injection(l, "authorization")>>] :
          l \in {Api, <<"api", "other">>}}
  \cup {[BaseBox EXCEPT !.injections = <<Injection(Api, "x-api-key")>>,
           !.exceptions = <<[labels |-> l, stars |-> n, pad |-> TRUE, upper |-> TRUE]>>] :
          l \in {<<"example">>, Api, <<"v2", "api", "example">>}, n \in 0 .. 2}
  \cup {[BaseBox EXCEPT !.monitored = TRUE, !.monver = "v1.3.0", !.multi = {TRUE}, !.kprobes = <<k>>] :
          k \in {"execve", "bogus"}}
  \cup {[BaseBox EXCEPT !.policies = <<p>>, !.provision = <<p>>] :
          p \in {Path(<<"x">>, "file"), Path(<<"..", "x">>, "file"), Path(<<"x">>, "missing"),
                 [Path(<<"etc", "x">>, "file") EXCEPT !.abs = TRUE]}}

Docs ==
  {[BaseDoc EXCEPT !.box = b] : b \in Boxes}
  \cup {[BaseDoc EXCEPT !.version = [int |-> TRUE, num |-> 0]], [BaseDoc EXCEPT !.second = "content"],
        [BaseDoc EXCEPT !.version.num = 2, !.unknown = TRUE]}
Redrafts ==
  {BaseDoc, [BaseDoc EXCEPT !.box.exceptions = <<S!Host(<<"pinned">>)>>],
   [BaseDoc EXCEPT !.box.upstream = S!Upstream("ipv4", 0), !.box.disk = S!Size(20, "T")]}
Manifests == {[cpus |-> c, memory |-> 2048, disk |-> S!Size(20, "G"), base |-> "debian"] : c \in {0, 2}}
Edits ==
  {[memory |-> 255], [disk |-> S!Size(10, "G"), cpus |-> 1], [disk |-> S!Size(30, "G")],
   [cpus |-> 1, upstream |-> S!Upstream("ipv4", 0)]}

-----------------------------------------------------------------------------
(* The image catalogs (Catalog): three publications.                       *)

Header == <<"version", "codename", "series", "release", "eol", "eol-lts">>
Row(v, series, rel, eol, lts) == <<v, "c", series, rel, eol, lts>>
SumLine(fl, v, arch, h) ==
  [fields |-> 2, file |-> [flavour |-> fl, version |-> v, arch |-> arch], hash |-> h]
OddLine(fl, v, arch, h) == [SumLine(fl, v, arch, h) EXCEPT !.fields = 3]
Product(v, arch, sup, lts, builds) ==
  [version |-> v, arch |-> arch, supported |-> sup, lts |-> lts, builds |-> builds]
Build(date, disk) == [date |-> date, disk |-> disk]
Offer(p, v, h, from, until) ==
  [image |-> [provider |-> p, version |-> v, hash |-> h], from |-> from, until |-> until]

Alma8 ==
  <<SumLine("latest", <<9>>, "aarch64", "x"), OddLine("latest", <<8>>, "x86_64", "x"),
    SumLine("latest", <<8>>, "x86_64", "a8")>>

\* A day with more than enough: end-of-life, future and short rows, an extended
\* support column, other architectures, an older build.
Monday ==
  [debian |-> [header |-> Header,
     rows |-> <<Row(<<12>>, "bookworm", 0, 9, 9), Row(<<1, 3>>, "bo", 0, -1, -1),
                Row(<<13>>, "trixie", 0, 1, 9), <<<<14>>, "c", "forky", 2, -1>>,
                Row(<<15>>, "duke", -1, -1, -1)>>],
   products |->
     {Product(<<24, 4, 3>>, "amd64", TRUE, TRUE, {Build(1, "u24a"), Build(2, "u24b")}),
      Product(<<24, 4, 3>>, "arm64", TRUE, TRUE, {Build(3, "x")}),
      Product(<<18, 4>>, "amd64", TRUE, TRUE, {Build(1, "x")}),
      Product(<<25, 10>>, "amd64", TRUE, FALSE, {Build(1, "x")})},
   sums |-> (<<"almalinux", <<8>>, "x86_64">> :> Alma8)
            @@ (<<"almalinux", <<10>>, "x86_64">> :> <<SumLine("latest", <<10>>, "x86_64", "a10")>>)
            @@ (<<"debian", "trixie">> :> <<SumLine("genericcloud", <<13>>, "amd64", "x"),
                                            SumLine("generic", <<13>>, "amd64", "d13")>>)
            @@ (<<"debian", "forky">> :> <<SumLine("generic", <<14>>, "amd64", "d14")>>),
   offers |-> {Offer("almalinux", <<8>>, "a8", 0, 99), Offer("almalinux", <<10>>, "a10", 0, 99),
               Offer("debian", <<13>>, "d13", 0, 9), Offer("debian", <<14>>, "d14", 2, 99),
               Offer("ubuntu", <<24, 4>>, "u24b", 0, 99)}]

\* The next: images replaced, gone, and published without a disk.
Tuesday ==
  [debian |-> [header |-> SubSeq(Header, 1, 5), rows |-> <<Row(<<13>>, "trixie", 0, 2, 9)>>],
   products |->
     {Product(<<24, 4, 3>>, "amd64", TRUE, TRUE, {Build(2, "u24b"), Build(3, "none")}),
      Product(<<20, 4>>, "amd64", TRUE, TRUE, {Build(3, "u20")}),
      Product(<<26, 4>>, "amd64", FALSE, TRUE, {Build(3, "x")})},
   sums |-> (<<"almalinux", <<8>>, "x86_64">> :> Alma8)
            @@ (<<"debian", "trixie">> :> <<SumLine("generic", <<13>>, "amd64", "d13b")>>),
   offers |-> {Offer("almalinux", <<8>>, "a8", 0, 99), Offer("debian", <<13>>, "d13b", 0, 2),
               Offer("ubuntu", <<20, 4>>, "u20", 0, 99)}]

Published == <<Monday, Tuesday>>

Shopping(do, refresh, choice) ==
  [do |-> do, refresh |-> refresh, name |-> [provider |-> "debian", version |-> <<13>>],
   choice |-> choice]
ShopCommands ==
  {Shopping("list", FALSE, 0), Shopping("json", TRUE, 0), Shopping("pull", FALSE, 0),
   Shopping("pick", FALSE, 2)}

OnShelf(provider, version, ext) ==
  [name |-> [provider |-> provider, version |-> version], ext |-> ext]
Shelf ==
  {OnShelf("mine", <<1>>, "qcow2"), OnShelf("mine", <<2>>, "raw"), OnShelf("almalinux", <<8>>, "qcow2")}

-----------------------------------------------------------------------------
(* Archives (Extract): entries at, below and past the caps 4 and 6.        *)

TarFile(comps, size, there) == [type |-> "file", comps |-> comps, size |-> size, there |-> there]
TarOther(type, comps) == [type |-> type, comps |-> comps, size |-> 0, there |-> 0]
Usual == {TarFile(c, n, n) : c \in {<<"a">>, <<"d", "b">>}, n \in {0, 2, 3, 4, 5}}
TarEntries ==
  Usual \cup {TarFile(c, n, n) : c \in {<<"..", "x">>, <<"d", "..", "a">>, <<>>}, n \in {0, 4}}
    \cup {TarFile(<<"a">>, 3, 2), TarFile(<<"a">>, -1, 0), TarOther("link", <<"a">>)}
    \cup {TarOther("dir", c) : c \in {<<"d">>, <<"a">>, <<"..">>}}
Tars == UNION {[1 .. n -> TarEntries] : n \in 0 .. 2} \cup [1 .. 3 -> Usual]

-----------------------------------------------------------------------------
(* The rest.                                                               *)

Forward(host, guest, rev) == [host |-> host, guest |-> guest, rev |-> rev]

Binding(host, header, key, prefix) ==
  [host |-> host, header |-> header, key |-> key, prefix |-> prefix]
HttpConfs ==
  {[mitm |-> TRUE, exempt |-> {"pin"}, bindings |-> {Binding("api", "auth", "k1", <<"v1">>)}],
   [mitm |-> TRUE, exempt |-> {},
    bindings |-> {Binding("api", "auth", "k1", <<>>), Binding("api", "key", "k2", <<"v1">>)}],
   [mitm |-> TRUE, exempt |-> {"api"}, bindings |-> {Binding("api", "auth", "k1", <<>>)}],
   [mitm |-> FALSE, exempt |-> {}, bindings |-> {}]}
Request(name, plain, path, raw, method, mitm) ==
  [host |-> [name |-> name, plain |-> plain], path |-> path, raw |-> raw, method |-> method,
   mitm |-> mitm]
OutRequests ==
  {Request("api", p, s, r, "GET", TRUE) : p, r \in BOOLEAN, s \in {<<"v1", "a">>, <<"v1", "..", "b">>}}
  \cup {Request("www", TRUE, <<"v1">>, FALSE, "GET", TRUE)}
  \cup {Request("api", TRUE, <<"v1">>, FALSE, m, i) : m \in {"GET", "TRACE"}, i \in BOOLEAN}

SeedConf(mitm, port, monitored, want, probes, policies) ==
  [mitm |-> mitm, port |-> port, monitored |-> monitored, want |-> want, probes |-> probes,
   policies |-> policies]

Guest ==
  [df |-> 89, http |-> "ours", https |-> "ours", resolved |-> "ours", nm |-> "absent",
   resolv |-> "other"]

Ask(name, type, net, room) == [name |-> name, type |-> type, net |-> net, room |-> room]
Answer(trunc, addrs, size) == [trunc |-> trunc, addrs |-> addrs, size |-> size]

HostOf(setuid, quiet, env) ==
  [root |-> FALSE, setuid |-> setuid, quiet |-> quiet, tool |-> TRUE, env |-> env]
=============================================================================
