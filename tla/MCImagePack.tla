----------------------------- MODULE MCImagePack -----------------------------
(* Instances of ImagePack for TLC: the tables a product may have. *)
EXTENDS ImagePack

Line(n) == [base |-> n, slot |-> ""]
Slots(n) == <<[base |-> n, slot |-> "_a"], [base |-> n, slot |-> "_b"]>>
Lines(ns) == [i \in DOMAIN ns |-> Line(ns[i])]

LinuxTables == {
    Lines(<<"preboot", "tzk_normal", "tzk_recovery", "bl_normal", "boot",
            "system">>),
    Lines(<<"preboot">>) \o Slots("tzk") \o Slots("bl") \o Slots("kernel")
        \o Lines(<<"rootfs", "misc">>)}
GenxTables == {
    Lines(<<"preboot", "key_1st", "key_2nd", "bl_normal", "bl_normalB",
            "firmware", "fastboot_1st", "fastlogo">>)}
LogoTables == {
    Lines(<<"preboot", "key_1st", "bl_normal", "fastlogo", "fastlogoB", "misc">>)}
RecoveryTables == {
    Lines(<<"preboot", "tzk_normal", "tzk_recovery", "bl_normal">>)}
NandTables == {
    Lines(<<"block0", "pre-bootloader", "tzk_normal", "tzk_normalB", "bl_normal",
            "boot", "rootfs", "app">>),
    Lines(<<"pre-bootloader", "tzk_normal", "bl_normal", "boot", "recovery",
            "key_1st", "rootfs", "app">>)}

LinuxConfig == [
    boot |-> "emmc", options |-> {"runtime", "ab", "fastlogo"},
    tables |-> LinuxTables, changing |-> {"tee", "tee_recovery"},
    packs |-> {"tee"}, appliances |-> {}]
GenxConfig == [
    boot |-> "emmc",
    options |-> {"genx", "preload_ta", "fastlogo", "fastboot", "android"},
    tables |-> GenxTables, changing |-> {"ta", "fastlogo", "key"},
    packs |-> {"ta", "fastlogo", "bootloader"}, appliances |-> {}]
NandConfig == [
    boot |-> "nand", options |-> {"app"}, tables |-> NandTables,
    changing |-> {"preboot"}, packs |-> {"tee", "preboot", "system"},
    appliances |-> {"ampsdk", "tee"}]
LogoConfig == [
    boot |-> "emmc", options |-> {"fastlogo", "ab"}, tables |-> LogoTables,
    changing |-> {"fastlogo", "key", "misc"}, packs |-> {"key"}, appliances |-> {}]
RecoveryConfig == [
    boot |-> "emmc", options |-> {}, tables |-> RecoveryTables,
    changing |-> {"tee_recovery"}, packs |-> {"tee"}, appliances |-> {}]

AllConfigs == {LinuxConfig, GenxConfig, NandConfig, LogoConfig}
RecoveryOnly == {RecoveryConfig}

ASSUME LayoutAssumption == LongNamesLast
ASSUME LogoAssumption == LogoReleased
ASSUME ListAssumption == ListsPacked
=============================================================================
