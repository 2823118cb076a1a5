--------------------------- MODULE MultibootProofs --------------------------
(***************************************************************************)
(* Proof about Multiboot under Boot: for every boot information whose tags *)
(* follow each other as the boot protocol lays them out, Parse reads every *)
(* tag once, and the last of each type is what the loader keeps.           *)
(***************************************************************************)
EXTENDS Boot, TLAPS

(* Where the tag behind the one at offset o begins.                        *)
Following(boot, o) == Padded(o + boot.tags[o].size)

(* The first tag lies behind the header; each tag has a size; behind it,   *)
(* with nothing in between, lies another tag or the end.                   *)
WellLaid(boot) ==
    /\ boot.size \in Nat
    /\ \A o \in DOMAIN boot.tags : o \in Nat /\ o >= HeaderSize
    /\ HeaderSize < boot.size => HeaderSize \in DOMAIN boot.tags
    /\ \A o \in DOMAIN boot.tags :
          /\ boot.tags[o].size \in Nat \ {0}
          /\ Following(boot, o) < boot.size => Following(boot, o) \in DOMAIN boot.tags
          /\ \A q \in DOMAIN boot.tags : q > o => q >= Following(boot, o)

Seen(type) == {o \in DOMAIN info.tags : o < pointer /\ info.tags[o].type = type}

Newest(offsets) == CHOOSE o \in offsets : \A q \in offsets : q <= o

Colours ==
    framebuffer # Unset =>
        /\ framebuffer.type = "palette" => palette = framebuffer.colours
        /\ framebuffer.type = "rgb" => rgb = framebuffer.colours

ParseInv ==
    /\ info \in BootInfos
    /\ pointer \in Nat
    /\ ParseFollowsTags

-----------------------------------------------------------------------------
(* Padding never goes back, so a tag with a size is left behind.           *)
LEMMA PaddedGoesOn ==
    ASSUME NEW p \in Nat
    PROVE  Padded(p) \in Nat /\ Padded(p) >= p
BY DEF Padded, MULTIBOOT_INFO_TAG_ALIGNMENT

LEMMA LastOfSeen ==
    ASSUME NEW type
    PROVE  LastOf(type) = IF Seen(type) = {} THEN Unset ELSE info.tags[Newest(Seen(type))].contents
BY DEF LastOf, Seen, Newest

(* The tag at the pointer is the last one of its type when it is passed;   *)
(* the last of every other type stays what it was.                         *)
LEMMA TagPassed ==
    ASSUME WellLaid(info), pointer \in DOMAIN info.tags, info' = info,
           pointer' = Following(info, pointer), NEW type
    PROVE  LastOf(type)' = IF info.tags[pointer].type = type THEN info.tags[pointer].contents
                           ELSE LastOf(type)
<1>1. /\ pointer \in Nat /\ pointer' \in Nat /\ pointer' > pointer
      /\ \A o \in DOMAIN info.tags : o \in Nat
      /\ \A o \in DOMAIN info.tags : o > pointer => o >= pointer'
  <2>1. pointer \in Nat /\ info.tags[pointer].size \in Nat \ {0} BY DEF WellLaid
  <2>2. pointer + info.tags[pointer].size \in Nat /\ pointer + info.tags[pointer].size > pointer
    BY <2>1
  <2> QED BY <2>1, <2>2, PaddedGoesOn DEF WellLaid, Following
<1>0. LastOf(type)' = IF Seen(type)' = {} THEN Unset
                      ELSE info.tags[Newest(Seen(type)')].contents
  BY DEF LastOf, Seen, Newest
<1>2. \A o \in DOMAIN info.tags : o < pointer' <=> o < pointer \/ o = pointer BY <1>1
<1>3. CASE info.tags[pointer].type = type
  <2>1. Seen(type)' = Seen(type) \cup {pointer} BY <1>2, <1>3 DEF Seen
  <2>2. \A o \in Seen(type)' : o <= pointer BY <2>1, <1>1 DEF Seen
  <2>3. \A o \in Seen(type)' : (\A q \in Seen(type)' : q <= o) => o = pointer
    BY <2>1, <2>2, <1>1 DEF Seen
  <2>4. Newest(Seen(type)') = pointer BY <2>1, <2>2, <2>3 DEF Newest
  <2> QED BY <2>1, <2>4, <1>3, <1>0
<1>4. CASE info.tags[pointer].type # type
  <2>1. Seen(type)' = Seen(type) BY <1>2, <1>4 DEF Seen
  <2> QED BY <2>1, <1>4, <1>0, LastOfSeen
<1> QED BY <1>3, <1>4

(* One iteration of the loop keeps what was parsed true of the tags.       *)
LEMMA ParseTagKeeps ==
    ASSUME ParseInv, WellLaid(info), ParseTag
    PROVE  ParseInv'
<1> DEFINE tag == info.tags[pointer]
<1>1. /\ Parsing /\ pointer \in DOMAIN info.tags /\ info' = info
      /\ pointer' = Following(info, pointer)
  BY DEF ParseInv, ParseFollowsTags, ParseTag, Following
<1>2. pointer' \in Nat
  <2>1. pointer + tag.size \in Nat BY <1>1 DEF WellLaid, ParseInv
  <2> QED BY <2>1, <1>1, PaddedGoesOn DEF Following
<1>3. Parsing' => pointer' \in DOMAIN info'.tags BY <1>1 DEF WellLaid, Parsing
<1>4. memory' = LastOf(MULTIBOOT_INFO_TAG_MEMORY)'
  <2>1. memory' = IF tag.type = MULTIBOOT_INFO_TAG_MEMORY THEN tag.contents ELSE memory BY DEF ParseTag
  <2> QED BY <2>1, <1>1, TagPassed DEF ParseInv, ParseFollowsTags
<1>5. framebuffer' = LastOf(MULTIBOOT_INFO_TAG_FRAMEBUFFER)'
  <2>1. framebuffer' = IF tag.type = MULTIBOOT_INFO_TAG_FRAMEBUFFER THEN tag.contents ELSE framebuffer
    BY DEF ParseTag
  <2> QED BY <2>1, <1>1, TagPassed DEF ParseInv, ParseFollowsTags
<1>6. Colours'
  <2>1. Colours BY DEF ParseInv, ParseFollowsTags, Colours
  <2> QED BY <2>1 DEF ParseTag, Colours
<1> QED BY <1>1, <1>2, <1>3, <1>4, <1>5, <1>6 DEF ParseInv, ParseFollowsTags, Colours

LEMMA OthersKeep ==
    ASSUME ParseInv, UNCHANGED multiboot
    PROVE  ParseInv'
<1>1. UNCHANGED <<info, pointer, memory, framebuffer, palette, rgb>> BY DEF multiboot
<1>2. LastOf(MULTIBOOT_INFO_TAG_MEMORY)' = LastOf(MULTIBOOT_INFO_TAG_MEMORY)
  BY <1>1 DEF LastOf
<1>3. LastOf(MULTIBOOT_INFO_TAG_FRAMEBUFFER)' = LastOf(MULTIBOOT_INFO_TAG_FRAMEBUFFER)
  BY <1>1 DEF LastOf
<1>4. Parsing' = Parsing BY <1>1 DEF Parsing
<1>5. (framebuffer # Unset =>
          /\ framebuffer.type = "palette" => palette = framebuffer.colours
          /\ framebuffer.type = "rgb" => rgb = framebuffer.colours)'
  BY <1>1 DEF ParseInv, ParseFollowsTags
<1>6. (Parsing => pointer \in DOMAIN info.tags)' BY <1>1, <1>4 DEF ParseInv, ParseFollowsTags
<1>7. (memory = LastOf(MULTIBOOT_INFO_TAG_MEMORY))' BY <1>1, <1>2 DEF ParseInv, ParseFollowsTags
<1>8. (framebuffer = LastOf(MULTIBOOT_INFO_TAG_FRAMEBUFFER))'
  BY <1>1, <1>3 DEF ParseInv, ParseFollowsTags
<1>9. (info \in BootInfos)' /\ (pointer \in Nat)' BY <1>1 DEF ParseInv
<1> QED BY <1>5, <1>6, <1>7, <1>8, <1>9 DEF ParseInv, ParseFollowsTags

LEMMA Initially ==
    ASSUME Init, \A boot \in BootInfos : WellLaid(boot)
    PROVE  ParseInv
<1>1. WellLaid(info) /\ info \in BootInfos /\ pointer = HeaderSize /\ HeaderSize = 8
  BY DEF Init, MultibootInit, HeaderSize
<1>2. \A type : LastOf(type) = Unset
  <2>1. \A type : Seen(type) = {} BY <1>1 DEF Seen, WellLaid
  <2> QED BY <2>1 DEF LastOf, Seen
<1>3. Parsing => pointer \in DOMAIN info.tags BY <1>1 DEF WellLaid, Parsing
<1> QED BY <1>1, <1>2, <1>3 DEF ParseInv, ParseFollowsTags, Init, MultibootInit

LEMMA NextKeepsParsing ==
    ASSUME \A boot \in BootInfos : WellLaid(boot), ParseInv, [Next]_vars
    PROVE  ParseInv'
<1>1. CASE ParseTag BY <1>1, ParseTagKeeps DEF ParseInv
<1>2. CASE UNCHANGED multiboot BY <1>2, OthersKeep
<1> QED
  BY <1>1, <1>2 DEF Next, KernelMain, Parse, RegisterDrivers, ScanBus, Announce, Printing,
     LoadDriver, AllLoaded, SvgaInit, SvgaReturns, Key, vars

(* For every boot information laid out as above, and whatever comes before *)
(* and after Parse, the pointer steps from tag to tag, and each member     *)
(* holds what the last tag of its type before the pointer says.            *)
THEOREM ParseIsFaithful ==
    ASSUME \A boot \in BootInfos : WellLaid(boot)
    PROVE  Spec => []ParseFollowsTags
<1>1. Init => ParseInv BY Initially
<1>2. ParseInv /\ [Next]_vars => ParseInv' BY NextKeepsParsing
<1>3. ParseInv => ParseFollowsTags BY DEF ParseInv
<1> QED BY <1>1, <1>2, <1>3, PTL DEF Spec
=============================================================================
