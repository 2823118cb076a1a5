----------------------------- MODULE Multiboot -----------------------------
(***************************************************************************)
(* MultibootLoader::Parse (modules/multiboot.cpp): one pass over the tags  *)
(* the boot loader left in memory.  A tag is the type, the size in bytes   *)
(* and the contents found at an offset of the boot information.            *)
(***************************************************************************)
EXTENDS Naturals

CONSTANT Unset      \* the contents of a member nothing has written

MULTIBOOT_INFO_TAG_MEMORY == 4
MULTIBOOT_INFO_TAG_FRAMEBUFFER == 8
MULTIBOOT_INFO_TAG_ALIGNMENT == 8
HeaderSize == 8

VARIABLES
    info,           \* the boot information: [size, tags]
    pointer,        \* the offset of the tag under examination
    memory,         \* members of the loader
    framebuffer, palette, rgb

multiboot == <<info, pointer, memory, framebuffer, palette, rgb>>

MultibootInit ==
    /\ pointer = HeaderSize
    /\ memory = Unset /\ framebuffer = Unset /\ palette = Unset /\ rgb = Unset

(* Mutation: sizes are taken to be padded already.                         *)
Unpadded(p) == p

Padded(p) ==
    LET end == p + (MULTIBOOT_INFO_TAG_ALIGNMENT - 1)
    IN  end - (end % MULTIBOOT_INFO_TAG_ALIGNMENT)

Parsing == pointer < info.size

ParseTag ==
    /\ Parsing
    /\ LET tag == info.tags[pointer]
           colours == tag.type = MULTIBOOT_INFO_TAG_FRAMEBUFFER
       IN  /\ memory' = IF tag.type = MULTIBOOT_INFO_TAG_MEMORY THEN tag.contents
                        ELSE memory
           /\ framebuffer' = IF colours THEN tag.contents ELSE framebuffer
           /\ palette' = IF colours /\ tag.contents.type = "palette"
                         THEN tag.contents.colours ELSE palette
           /\ rgb' = IF colours /\ tag.contents.type = "rgb"
                     THEN tag.contents.colours ELSE rgb
           /\ pointer' = Padded(pointer + tag.size)
    /\ UNCHANGED info

-----------------------------------------------------------------------------
(* The pointer steps from tag to tag, and what was parsed is what the last *)
(* tag of each type before it holds, colours included; without such a tag  *)
(* the member stays unwritten.                                             *)
LastOf(type) ==
    LET seen == {o \in DOMAIN info.tags : o < pointer /\ info.tags[o].type = type}
    IN  IF seen = {} THEN Unset
        ELSE info.tags[CHOOSE o \in seen : \A q \in seen : q <= o].contents

ParseFollowsTags ==
    /\ Parsing => pointer \in DOMAIN info.tags
    /\ memory = LastOf(MULTIBOOT_INFO_TAG_MEMORY)
    /\ framebuffer = LastOf(MULTIBOOT_INFO_TAG_FRAMEBUFFER)
    /\ framebuffer # Unset =>
          /\ framebuffer.type = "palette" => palette = framebuffer.colours
          /\ framebuffer.type = "rgb" => rgb = framebuffer.colours
=============================================================================
