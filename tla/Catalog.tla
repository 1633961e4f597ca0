------------------------------- MODULE Catalog -------------------------------
(***************************************************************************)
(* The catalogue of base images: what the three providers publish, how     *)
(* `abox base list` and `abox base pull` turn it into a list of images     *)
(* (internal/images), the one-hour cache they share, and what the user is  *)
(* shown and picks (pkg/cmd/base, pkg/cmdutil).  Several commands may run   *)
(* at once; publishers change what they offer while a fetch is under way.  *)
(* Downloading and verifying the chosen image is Storage's subject.        *)
(*                                                                         *)
(* A version is the sequence of its numbers, a date a number on the same   *)
(* clock, an image file [flavour, version, arch]; a hash names a build.    *)
(***************************************************************************)
EXTENDS Integers, Sequences, FiniteSets
LOCAL INSTANCE SequencesExt

CONSTANTS
  Shoppers,      \* the `abox base` commands that may run at once
  Worlds,        \* what may be published, by number: [debian, products, sums], and
                 \* the images that puts on offer, each with its time
  CatCommands,   \* the commands given: [do, refresh, name, choice]
  HostArch,      \* runtime.GOARCH
  FirstShelf,    \* the files of the user's image directory at the beginning
  CacheMaxAge,   \* cacheMaxAge
  FetchTime,     \* the longest a fetch takes: its requests' timeouts
  MaxTime, MaxCatRuns, MaxCatFaults, MaxReleases   \* bounds

\* What the constants must be.
CatalogAssumption ==
  /\ CacheMaxAge \in Nat \ {0}
  /\ {FetchTime, MaxTime, MaxCatRuns, MaxCatFaults, MaxReleases} \subseteq Nat

VARIABLES
  world,      \* which of them is published now
  clock,      \* time.Now
  past,       \* every (time, publication) there has been: a history variable
  catCache,   \* images.json: {} absent, {CutCache} torn, or {[stamp, images]}
  shopper,    \* each command: stage, arguments, providers to ask, images got
  shelf,      \* the files of the user's image directory: [name, ext]
  releases, catRuns, catFaults   \* counts, for the bounds

catVars == <<world, clock, past, catCache, shopper, shelf, releases, catRuns, catFaults>>

NoDate == -1                       \* an empty date cell; an unreadable one is 0
NoHash == "none"
CutCache == [stamp |-> NoDate, images |-> <<>>]
ImageExt == "qcow2"                \* UserBaseImageExt on Linux

-----------------------------------------------------------------------------
(* Versions, names and checksum files.                                     *)

\* Number by number; a part that is missing counts as zero.
compareVersionStrings(a, b) ==
  LET part(v, i) == IF i <= Len(v) THEN v[i] ELSE 0
      differ == {i \in 1 .. (Len(a) + Len(b)) : part(a, i) # part(b, i)}
      first == CHOOSE i \in differ : \A j \in differ : i <= j
  IN  IF differ = {} THEN 0
      ELSE IF part(a, first) < part(b, first) THEN -1 ELSE 1

extractMajorMinor(version) ==
  IF Len(version) >= 2 THEN SubSeq(version, 1, 2) ELSE version

ProviderOrder == <<"almalinux", "debian", "ubuntu">>

NameOf(img) == [provider |-> img.provider, version |-> img.version]

\* natsort.Less on two image names: the provider's letters, then the numbers by
\* value, a name that ends first being the smaller.
Less(a, b) ==
  LET rank(p) == CHOOSE i \in DOMAIN ProviderOrder : ProviderOrder[i] = p
  IN  \/ rank(a.provider) < rank(b.provider)
      \/ /\ a.provider = b.provider
         /\ \E i \in DOMAIN b.version :
              /\ \A j \in 1 .. (i - 1) : j \in DOMAIN a.version /\ a.version[j] = b.version[j]
              /\ i \in DOMAIN a.version => a.version[i] < b.version[i]

\* The hash on the first two-field line for exactly this file.
ParseChecksums(lines, file) ==
  LET hits == {i \in DOMAIN lines : lines[i].fields = 2 /\ lines[i].file = file}
  IN  IF hits = {} THEN NoHash
      ELSE lines[CHOOSE i \in hits : \A j \in hits : i <= j].hash

-----------------------------------------------------------------------------
(* The providers.  `mute` is the set of requests that fail this time.      *)

RequiredColumns == {"version", "codename", "series", "release", "eol"}

\* The index of every column, or no column at all when a required one is absent.
parseDebianHeader(header) ==
  IF RequiredColumns \subseteq Range(header)
  THEN [c \in Range(header) |->
          CHOOSE i \in DOMAIN header : header[i] = c /\ \A j \in DOMAIN header :
                                         header[j] = c => j <= i]
  ELSE <<>>

isReleaseSupported(record, cols, now) ==
  \/ record[cols["eol"]] = NoDate
  \/ now < record[cols["eol"]]
  \/ /\ "eol-lts" \in DOMAIN cols
     /\ Len(record) >= cols["eol-lts"]
     /\ now < record[cols["eol-lts"]]

\* The rows long enough, released, supported, and of a single number, 13 or more.
parseDistroInfo(table, now) ==
  LET cols == parseDebianHeader(table.header)
      kept(r) == /\ \A c \in RequiredColumns : cols[c] <= Len(r)
                 /\ r[cols["release"]] # NoDate
                 /\ ~ now < r[cols["release"]]
                 /\ isReleaseSupported(r, cols, now)
                 /\ Len(r[cols["version"]]) = 1
                 /\ r[cols["version"]][1] >= 13
  IN  IF DOMAIN cols = {} THEN {}
      ELSE {[version |-> r[cols["version"]], series |-> r[cols["series"]]] :
              r \in {x \in Range(table.rows) : kept(x)}}

\* The checksum file of a directory, empty when it cannot be had.
Sums(w, dir, mute) == IF dir \in DOMAIN w.sums \ mute THEN w.sums[dir] ELSE <<>>

Image(provider, version, hash) ==
  [provider |-> provider, version |-> version, hash |-> hash]

Hashed(images) == {img \in images : img.hash # NoHash}

debianFetchImageInfo(w, rel, mute) ==
  Image("debian", rel.version,
        ParseChecksums(Sums(w, <<"debian", rel.series>>, mute),
                       [flavour |-> "generic", version |-> rel.version, arch |-> HostArch]))

\* A release without a checksum is passed over.
debianFetchAvailable(w, now, mute) ==
  IF <<"debian">> \in mute THEN {} ELSE
  Hashed({debianFetchImageInfo(w, rel, mute) : rel \in parseDistroInfo(w.debian, now)})

almalinuxUpstreamArch(arch) ==
  CASE arch = "amd64" -> "x86_64" [] arch = "arm64" -> "aarch64" [] OTHER -> ""

almalinuxFetchImageInfo(w, version, mute) ==
  LET arch == almalinuxUpstreamArch(HostArch)
  IN  Image("almalinux", version,
            IF arch = "" THEN NoHash
            ELSE ParseChecksums(Sums(w, <<"almalinux", version, arch>>, mute),
                   [flavour |-> "latest", version |-> version, arch |-> arch]))

almalinuxFetchAvailable(w, mute) ==
  Hashed({almalinuxFetchImageInfo(w, v, mute) : v \in {<<8>>, <<9>>, <<10>>}})

\* MUTANT of parseCatalog: the oldest build is taken for the latest.
parseCatalogOldest(products, arch) ==
  {Image("ubuntu", extractMajorMinor(p.version), b.disk) :
     <<p, b>> \in {<<x, y>> \in products \X UNION {x.builds : x \in products} :
                     /\ x.arch = arch /\ x.supported /\ x.lts
                     /\ y \in x.builds /\ \A z \in x.builds : y.date <= z.date}}

\* The supported LTS products of this architecture from 20.04 on, each by the
\* disk of its latest build, if that build has one.
parseCatalog(products, arch) ==
  LET offered == {p \in products : /\ p.arch = arch /\ p.supported /\ p.lts
                                   /\ compareVersionStrings(extractMajorMinor(p.version),
                                                            <<20, 4>>) >= 0
                                   /\ p.builds # {}}
      latest(p) == CHOOSE b \in p.builds : \A c \in p.builds : c.date <= b.date
  IN  Hashed({Image("ubuntu", extractMajorMinor(p.version), latest(p).disk) : p \in offered})

ubuntuFetchAvailable(w, mute) ==
  IF <<"ubuntu">> \in mute THEN {} ELSE parseCatalog(w.products, HostArch)

\* What a provider answers; a provider with nothing to offer reports an error.
FetchAvailable(provider, w, now, mute) ==
  CASE provider = "debian"    -> debianFetchAvailable(w, now, mute)
    [] provider = "almalinux" -> almalinuxFetchAvailable(w, mute)
    [] provider = "ubuntu"    -> ubuntuFetchAvailable(w, mute)

-----------------------------------------------------------------------------
(* One command: its catalogue (FetchAll), then what it does with it.       *)

Idling == [stage |-> "idle", cmd |-> [do |-> "none"], todo |-> <<>>, got |-> {},
           since |-> 0, images |-> <<>>]

Become(u, s) == shopper' = [shopper EXCEPT ![u] = s]

CatalogInit ==
  /\ world \in DOMAIN Worlds
  /\ clock = 0
  /\ past = {<<0, world>>}
  /\ catCache = {}
  /\ shopper = [u \in Shoppers |-> Idling]
  /\ shelf = FirstShelf
  /\ releases = 0 /\ catRuns = 0 /\ catFaults = 0

\* Time passes, but no fetch outlasts its requests' timeouts.
Tick ==
  /\ clock < MaxTime
  /\ \A u \in Shoppers : shopper[u].stage = "fetch" => clock < shopper[u].since + FetchTime
  /\ clock' = clock + 1
  /\ past' = past \cup {<<clock', world>>}
  /\ UNCHANGED <<world, catCache, shopper, shelf, releases, catRuns, catFaults>>

Publish(w) ==
  /\ world # w
  /\ releases < MaxReleases
  /\ releases' = releases + 1
  /\ world' = w
  /\ past' = past \cup {<<clock, w>>}
  /\ UNCHANGED <<clock, catCache, shopper, shelf, catRuns, catFaults>>

Ask(u, cmd) ==
  /\ shopper[u].stage = "idle"
  /\ catRuns < MaxCatRuns
  /\ catRuns' = catRuns + 1
  /\ Become(u, [Idling EXCEPT !.stage = "look", !.cmd = cmd])
  /\ UNCHANGED <<world, clock, past, catCache, shelf, releases, catFaults>>

\* The cached list, if there is one that can be read, young enough and wanted.
loadCache(refresh) ==
  IF refresh THEN {} ELSE {c \in catCache : c # CutCache /\ clock - c.stamp < CacheMaxAge}

\* The command uses the cache, or begins to ask the providers one by one.
Look(u) ==
  LET s == shopper[u] cached == loadCache(s.cmd.refresh)
  IN  /\ s.stage = "look"
      /\ Become(u, IF cached = {}
                   THEN [s EXCEPT !.stage = "fetch", !.todo = ProviderOrder,
                                  !.got = {}, !.since = clock]
                   ELSE [s EXCEPT !.stage = "answered", !.since = clock,
                                  !.images = (CHOOSE c \in cached : TRUE).images])
      /\ UNCHANGED <<world, clock, past, catCache, shelf, releases, catRuns, catFaults>>

\* The requests that may fail in asking a provider, all of them answered at best.
Outages(provider) ==
  {{}} \cup {{<<provider>>}} \cup {{dir} : dir \in {d \in DOMAIN Worlds[world].sums : d[1] = provider}}

\* One provider is asked; an error of its own only loses its images.
FetchOne(u, mute) ==
  LET s == shopper[u]
  IN  /\ s.stage = "fetch" /\ s.todo # <<>>
      /\ mute \in Outages(Head(s.todo))
      /\ mute # {} => catFaults < MaxCatFaults
      /\ catFaults' = catFaults + (IF mute = {} THEN 0 ELSE 1)
      /\ Become(u, [s EXCEPT !.todo = Tail(@),
                             !.got = @ \cup FetchAvailable(Head(s.todo), Worlds[world], clock, mute)])
      /\ UNCHANGED <<world, clock, past, catCache, shelf, releases, catRuns>>

\* All that was fetched, in natural order.
FetchAll(got) == SetToSortSeq(got, LAMBDA a, b : Less(NameOf(a), NameOf(b)))

\* Every provider has answered: nothing at all is an error, which leaves the
\* command without a list; else images.json is opened and truncated.
Fetched(u) ==
  LET s == shopper[u]
  IN  /\ s.stage = "fetch" /\ s.todo = <<>>
      /\ IF s.got = {}
         THEN /\ Become(u, [s EXCEPT !.stage = "failed"])
              /\ UNCHANGED catCache
         ELSE /\ Become(u, [s EXCEPT !.stage = "save", !.since = clock,
                                       !.images = FetchAll(s.got)])
              /\ catCache' = {CutCache}
      /\ UNCHANGED <<world, clock, past, shelf, releases, catRuns, catFaults>>

\* The list is written with the time its fetch ended; a failure is only logged.
saveCache(u) ==
  /\ shopper[u].stage = "save"
  /\ Become(u, [shopper[u] EXCEPT !.stage = "answered"])
  /\ \/ /\ catCache' = {[stamp |-> shopper[u].since, images |-> shopper[u].images]}
        /\ UNCHANGED catFaults
     \/ /\ catFaults < MaxCatFaults
        /\ catFaults' = catFaults + 1
        /\ UNCHANGED catCache
  /\ UNCHANGED <<world, clock, past, shelf, releases, catRuns>>

-----------------------------------------------------------------------------
(* What is done with the list.                                             *)

FindByName(images, name) == {img \in Range(images) : NameOf(img) = name}

\* The file of an image: UserBaseImageName.
ImageFile(name) == [name |-> name, ext |-> ImageExt]

\* The catalogue's images, each with whether its file is there.
displayImagesByProvider(images) ==
  [i \in DOMAIN images |-> [name |-> NameOf(images[i]), custom |-> FALSE,
                            downloaded |-> ImageFile(NameOf(images[i])) \in shelf]]

\* The files with the image extension the catalogue does not know.
displayCustomImages(known) ==
  SetToSeq({[name |-> f.name, custom |-> TRUE, downloaded |-> TRUE] :
              f \in {x \in shelf : x.ext = ImageExt /\ x.name \notin known}})

listDownloadedOnly ==
  SetToSeq({[name |-> f.name, custom |-> FALSE, downloaded |-> TRUE] :
              f \in {x \in shelf : x.ext = ImageExt}})

\* `base list --json`: the same two parts, or an empty list without a catalogue.
exportImagesJSON(images) ==
  displayImagesByProvider(images) \o displayCustomImages({NameOf(img) : img \in Range(images)})

\* What `base list` shows when its catalogue is ready or could not be had.
runList(s) ==
  CASE s.stage = "failed" /\ s.cmd.do = "json" -> <<>>
    [] s.stage = "failed" -> listDownloadedOnly
    [] s.cmd.do = "json" -> exportImagesJSON(s.images)
    [] OTHER -> displayImagesByProvider(s.images)
                \o displayCustomImages({NameOf(img) : img \in Range(s.images)})

GroupByProvider(images) ==
  [p \in Range(ProviderOrder) |-> SelectSeq(images, LAMBDA img : img.provider = p)]

\* The labels in the order SelectWithGroups numbers them.
GroupLines(groups) ==
  LET lines == FlattenSeq([i \in DOMAIN ProviderOrder |-> groups[ProviderOrder[i]]])
  IN  [i \in DOMAIN lines |-> NameOf(lines[i])]

\* The index, from 0, of the number typed, or -1 when it is not on the list.
SelectWithGroups(groups, choice) ==
  IF choice \in 1 .. Len(GroupLines(groups)) THEN choice - 1 ELSE -1

\* The image at the chosen index of the images laid out group by group.
pickImage(images, choice) ==
  LET grouped == GroupByProvider(images)
      flatImages == FlattenSeq([i \in DOMAIN ProviderOrder |-> grouped[ProviderOrder[i]]])
      selection == SelectWithGroups(grouped, choice)
  IN  IF selection < 0 \/ selection >= Len(flatImages) THEN {} ELSE {flatImages[selection + 1]}

\* The list has been shown: the command ends.
ListEnds(u) ==
  /\ shopper[u].stage \in {"answered", "failed"}
  /\ shopper[u].cmd.do \in {"list", "json", "show"}
  /\ Become(u, Idling)
  /\ UNCHANGED <<world, clock, past, catCache, shelf, releases, catRuns, catFaults>>

\* The image a pull goes on with, if any.
Chosen(s) ==
  IF s.stage = "failed" THEN {}
  ELSE IF s.cmd.do = "pick" THEN pickImage(s.images, s.cmd.choice)
  ELSE FindByName(s.images, s.cmd.name)

\* A named pull that finds nothing fetches once more, to show what there is.
runPull(u) ==
  LET s == shopper[u]
  IN  /\ s.stage \in {"answered", "failed"}
      /\ s.cmd.do \in {"pull", "pick"}
      /\ Become(u, IF Chosen(s) # {} THEN [s EXCEPT !.stage = "pull"]
                   ELSE IF s.cmd.do = "pull"
                   THEN [Idling EXCEPT !.stage = "look", !.cmd = [s.cmd EXCEPT !.do = "show"]]
                   ELSE Idling)
      /\ UNCHANGED <<world, clock, past, catCache, shelf, releases, catRuns, catFaults>>

\* The pull ends: the image was there already, or it is downloaded and matches
\* its hash, or the pull fails.
PullEnds(u) ==
  LET img == CHOOSE x \in Chosen(shopper[u]) : TRUE
  IN  /\ shopper[u].stage = "pull"
      /\ \E got \in {shelf, shelf \cup {ImageFile(NameOf(img))}} : shelf' = got
      /\ Become(u, Idling)
      /\ UNCHANGED <<world, clock, past, catCache, releases, catRuns, catFaults>>

\* A command killed while it writes the cache leaves it torn.
ShopperKilled(u) ==
  /\ shopper[u].stage # "idle"
  /\ catFaults < MaxCatFaults
  /\ catFaults' = catFaults + 1
  /\ Become(u, Idling)
  /\ UNCHANGED <<world, clock, past, catCache, shelf, releases, catRuns>>

CatalogNext ==
  \/ Tick
  \/ \E w \in DOMAIN Worlds : Publish(w)
  \/ \E u \in Shoppers :
       \/ \E cmd \in CatCommands : Ask(u, cmd)
       \/ Look(u) \/ Fetched(u) \/ saveCache(u) \/ ListEnds(u)
       \/ runPull(u) \/ PullEnds(u) \/ ShopperKilled(u)
       \/ shopper[u].todo # <<>> /\ \E mute \in Outages(Head(shopper[u].todo)) : FetchOne(u, mute)

-----------------------------------------------------------------------------
(* Properties.                                                             *)

\* The images a publication has on offer at a time, as its publisher would say.
OnOffer(w, t) == {o.image : o \in {x \in Worlds[w].offers : x.from <= t /\ t < x.until}}

\* The publications a list answered now may go back to: as old as a cache may
\* get, and the fetch that filled it.
Window(s) == {x \in past : s.since - CacheMaxAge - FetchTime < x[1] /\ x[1] <= s.since}

Answered == {s \in Range(shopper) : s.stage = "answered"}

\* Every image of a list, fetched or cached, was on offer with that very hash at
\* most one cache lifetime and one fetch ago, whatever was published and however
\* many commands wrote the cache meanwhile (FetchAll, the providers).
FreshAnswer ==
  \A s \in Answered : \A img \in Range(s.images) :
    \E x \in Window(s) : img \in OnOffer(x[2], x[1])

\* Unless a request failed, an image on offer all that time is on the list.
NothingMissing ==
  catFaults = 0 => \A s \in Answered : \A w \in DOMAIN Worlds : \A o \in Worlds[w].offers :
    (\A x \in Window(s) : NameOf(o.image) \in {NameOf(i) : i \in OnOffer(x[2], x[1])})
      => NameOf(o.image) \in {NameOf(i) : i \in Range(s.images)}

\* A list names each image once, provider by provider and each provider's
\* releases from old to new (FetchAll's sort, natsort.Less).
AnswerSorted ==
  LET order(img) == LET v == img.version \o <<0>> IN
        <<CHOOSE i \in 1 .. 3 : ProviderOrder[i] = img.provider, 100 * v[1] + v[2]>>
  IN  \A s \in Answered : \A i, j \in DOMAIN s.images : i < j =>
        LET a == order(s.images[i]) b == order(s.images[j])
        IN  a[1] < b[1] \/ (a[1] = b[1] /\ a[2] < b[2])

\* `base list` shows every image file of the user's directory exactly once, as
\* downloaded, with a catalogue or without one (runList); only `--json` after a
\* failed fetch shows nothing.
ListedOnce ==
  \A s \in Range(shopper) :
    s.stage \in {"answered", "failed"} /\ s.cmd.do \in {"list", "json"}
      /\ ~ (s.stage = "failed" /\ s.cmd.do = "json") =>
    \A f \in shelf : f.ext = ImageExt =>
      LET lines == runList(s)
          hits == {i \in DOMAIN lines : lines[i].name = f.name}
      IN  Cardinality(hits) = 1 /\ \A i \in hits : lines[i].downloaded

\* The picker pulls the image whose label stood at the number typed
\* (SelectWithGroups numbers the groups, pickImage lays them out again).
PickMeansLabel ==
  \A s \in Answered : s.cmd.do = "pick" =>
    LET lines == GroupLines(GroupByProvider(s.images))
    IN  {NameOf(i) : i \in pickImage(s.images, s.cmd.choice)} =
          {lines[n] : n \in {s.cmd.choice} \cap DOMAIN lines}
=============================================================================
