------------------------------ MODULE VmConfig ------------------------------
(***************************************************************************)
(* From the page's start to QEMU's command line: what Index.ets asks for,  *)
(* what ParseVMConfig makes of it, and the arguments BuildQemuArgs builds. *)
(* Pure functions of the configuration c and of the files f as the native  *)
(* code finds them; VmBoot gives them a life.  A text is the value the     *)
(* code tells apart; an option is kept with the names it declares, the     *)
(* names it needs, its boot index and the file it opens.                   *)
(***************************************************************************)
EXTENDS Integers, Sequences, FiniteSets

(***************************************************************************)
(* ParseVMConfig.  A property that the object does not have reads as       *)
(* undefined without an error, so the text stays empty: the defaults in    *)
(* the "else" branches are for a getter that throws.                       *)
(***************************************************************************)
Given(js, p, none) == IF p \in DOMAIN js THEN js[p] ELSE none

ParseIdentity(js) ==
    [name |-> Given(js, "name", ""), osType |-> Given(js, "osType", ""),
     archType |-> Given(js, "archType", ""), isoPath |-> Given(js, "isoPath", "")]

ParseNumbers(js) ==
    LET disk == Given(js, "diskSizeGB", 0)
        memory == Given(js, "memoryMB", 0)
        cpus == Given(js, "cpuCount", 0)
    IN [diskSizeGB |-> IF disk > 0 THEN disk ELSE 32,
        memoryMB |-> IF memory >= 512 THEN memory ELSE IF memory > 0 THEN 512 ELSE 2048,
        cpuCount |-> IF cpus >= 1 THEN cpus ELSE 2]

ParseModes(js) ==
    [cpuModel |-> Given(js, "cpuModel", ""), accel |-> Given(js, "accel", ""),
     display |-> Given(js, "display", ""), nographic |-> Given(js, "nographic", FALSE),
     installMode |-> Given(js, "installMode", FALSE), efiFirmware |-> Given(js, "efiFirmware", "")]

ParseHardware(js) ==
    [qemuDataDir |-> Given(js, "qemuDataDir", ""), machine |-> Given(js, "machine", ""),
     displayDevice |-> Given(js, "displayDevice", ""),
     networkDevice |-> Given(js, "networkDevice", ""), audioDevice |-> Given(js, "audioDevice", "")]

ParseVMConfig(js) ==
    LET With(r, s) == [p \in DOMAIN r \cup DOMAIN s |-> IF p \in DOMAIN r THEN r[p] ELSE s[p]]
    IN With(With(ParseIdentity(js), ParseNumbers(js)), With(ParseModes(js), ParseHardware(js)))

Parsed(c) == c.name # ""
Supported(c) == c.archType \in {"", "aarch64"}

(***************************************************************************)
(* What the page hands over through QemuVMManager.startVM: the VM's stored *)
(* hardware vm, the way the user starts it, and whether the keymaps could  *)
(* be copied.  It has neither an "installMode" nor an "osType".            *)
(***************************************************************************)
StartModes == {"standard", "install", "debug"}

(* An ISO cut below a megabyte is refused like one that is gone.           *)
StartRefused(mode, vm, f) == mode = "install" /\ (vm.isoPath = "" \/ f.iso = "gone")

PageDisplay(mode, vm, keymaps) ==
    IF mode # "debug" /\ ~keymaps THEN "none"
    ELSE IF mode = "install" /\ vm.displayDevice \in {"", "auto", "none", "virtio-gpu"} THEN "ramfb"
    ELSE vm.displayDevice

PageConfig(mode, vm, keymaps) ==
    LET headless == mode = "debug" \/ ~keymaps
    IN [name |-> vm.name, archType |-> vm.archType, isoPath |-> vm.isoPath,
        diskSizeGB |-> IF vm.diskSizeGB > 0 THEN vm.diskSizeGB ELSE 32,
        memoryMB |-> 2048, cpuCount |-> 4, accel |-> "tcg",
        display |-> IF headless THEN "none" ELSE "vnc", nographic |-> headless,
        efiFirmware |-> "given", qemuDataDir |-> IF mode # "debug" /\ keymaps THEN "given" ELSE "",
        displayDevice |-> PageDisplay(mode, vm, keymaps), machine |-> vm.machine,
        networkDevice |-> vm.networkDevice, audioDevice |-> vm.audioDevice]

(***************************************************************************)
(* What the configuration says of the guest and its machine.               *)
(***************************************************************************)
IsWindows(c) == (IF c.osType # "" THEN c.osType ELSE c.name) \in {"win", "windows"}
OnVirt(c) == c.machine \in {"", "virt"}

(***************************************************************************)
(* The images.  Readings of a qcow2 header: cluster bits, the offset of    *)
(* the refcount table in clusters and a rest, and its first entry.         *)
(***************************************************************************)
Raw(size) == [qcow2 |-> FALSE, size |-> size]
Qcow2(bits, table, rest, entry) ==
    [qcow2 |-> TRUE, size |-> 1, bits |-> bits, table |-> table, rest |-> rest, entry |-> entry]
NoImage == Raw(-1)

(* FileExists is stat() = 0.  In the sandbox that "may return wrong        *)
(* results" (BuildQemuArgs, of the keymaps, the firmware and the ISO): it   *)
(* may fail on a file that is there, and that the other calls open.         *)
Present(f, file) == IF file = "disk" THEN f.disk # NoImage ELSE f[file] # "absent"
FileExists(f, file) == f.stat # "fails" /\ Present(f, file)

IsQcow2FileQuick(image) == image.qcow2

PreflightQcow2RefcountTable(image) ==
    \/ ~image.qcow2
    \/ /\ image.bits \in 9..22
       /\ image.rest = 0 /\ image.table > 0
       /\ image.entry # 0

(***************************************************************************)
(* Options of the command line.                                            *)
(***************************************************************************)
Flag(opt, value) == [opt |-> opt, value |-> value, holds |-> {}, needs |-> {}, boot |-> {}, opens |-> {}]
Backend(opt, value, id) == [Flag(opt, value) EXCEPT !.holds = {id}]
Drive(file, id, mode) == [Flag("-drive", file) EXCEPT !.holds = {id}, !.opens = {<<file, mode>>}]
Device(model, holds, needs) == [Flag("-device", model) EXCEPT !.holds = holds, !.needs = needs]
BootsAt(device, index) == [device EXCEPT !.boot = {index}]

DataDir(c, f) ==
    IF c.qemuDataDir # "" THEN c.qemuDataDir
    ELSE IF FileExists(f, "keymaps") THEN "found" ELSE ""
DataDirArgs(c, f) == <<Flag("-L", IF DataDir(c, f) = "" THEN "default" ELSE DataDir(c, f))>>

MachineArgs(c) ==
    <<Flag("-machine", IF ~OnVirt(c) THEN c.machine
                       ELSE IF c.accel = "kvm" THEN "virt,virtualization" ELSE "virt")>>
RngArgs(c) ==
    IF ~OnVirt(c) THEN <<>>
    ELSE <<Backend("-object", "rng-random", "rng"), Device("virtio-rng-device", {"front.rng"}, {"rng"})>>
TpmArgs(c) ==
    IF ~OnVirt(c) THEN <<>>
    ELSE <<Backend("-tpmdev", "emulator", "tpm0"), Device("tpm-tis-device", {"front.tpm0"}, {"tpm0"})>>

AllowedCpus == {"max", "cortex-a72", "cortex-a57", "cortex-a53", "neoverse-n1"}
CpuArgs(c) ==
    <<Flag("-cpu", IF c.cpuModel \in AllowedCpus THEN c.cpuModel
                   ELSE IF OnVirt(c) /\ c.accel \in {"tcg", "tcg,thread=multi"} THEN "max"
                   ELSE "cortex-a72"),
      Flag("-smp", c.cpuCount), Flag("-m", c.memoryMB), Flag("-accel", c.accel)>>

(***************************************************************************)
(* Firmware: the page's path and the places searched in its absence lead   *)
(* to the same file, the page's copy.  vars is the file BuildQemuArgs      *)
(* settled on for the variables, which is not a pure choice: see VmBoot.   *)
(***************************************************************************)
FirmwareExists(f) == f.code # "absent"
VarsWanted(f) == FirmwareExists(f) /\ f.template # "absent"
NeedsReset(c, f) == c.installMode \/ ~FileExists(f, "vars")
FirmwareArgs(f, vars) ==
    IF ~FirmwareExists(f) THEN <<>>
    ELSE <<Drive("code", "pflash0", "ro")>>
         \o (IF vars = "none" THEN <<>> ELSE <<Drive(vars, "pflash1", "rw")>>)

(***************************************************************************)
(* Disk and ISO.  The disk's options are collected first but appended      *)
(* after the ISO's; the SATA controller goes in as soon as one wants it.   *)
(***************************************************************************)
IsoReadable(c, f) == c.isoPath # "" /\ f.iso # "gone"
HasDisk(f) == FileExists(f, "disk")
SataArgs(c, f) ==
    IF OnVirt(c) /\ IsWindows(c) /\ (HasDisk(f) \/ IsoReadable(c, f))
    THEN <<Device("ich9-ahci", {"ahci"}, {})>> ELSE <<>>

DiskBoot(c) == IF c.installMode /\ c.isoPath # "" THEN 1 ELSE 0
DiskDevice(c) ==
    IF ~IsWindows(c) THEN BootsAt(Device("virtio-blk-device", {"front.hd0"}, {"hd0"}), DiskBoot(c))
    ELSE IF OnVirt(c) THEN BootsAt(Device("ide-hd", {"front.hd0", "ahci.1"}, {"hd0", "ahci"}), DiskBoot(c))
    ELSE Device("nvme", {"front.hd0"}, {"hd0"})
DiskArgs(c, f) == IF HasDisk(f) THEN <<Drive("disk", "hd0", "rw"), DiskDevice(c)>> ELSE <<>>

Xhci == Device("qemu-xhci", {"xhci"}, {})
IsoDevice(c) ==
    IF IsWindows(c) THEN BootsAt(Device("ide-cd", {"front.cd0", "ahci.0"}, {"cd0", "ahci"}), 0)
    ELSE BootsAt(Device("virtio-blk-device", {"front.cd0"}, {"cd0"}), 0)
IsoArgs(c, f) ==
    IF ~IsoReadable(c, f) THEN <<>>
    ELSE IF ~OnVirt(c) THEN <<[Flag("-cdrom", "iso") EXCEPT !.opens = {<<"iso", "ro">>}], Flag("-boot", "order=dc")>>
    ELSE <<Drive("iso", "cd0", "ro"), IsoDevice(c), Flag("-boot", "menu=on"), Xhci, Drive("iso", "usbstick", "ro"),
           BootsAt(Device("usb-storage", {"front.usbstick"}, {"usbstick", "xhci"}), 2)>>

LogArgs == <<Flag("-D", "qemu_debug.log"), Flag("-d", "guest_errors,cpu_reset")>>

(***************************************************************************)
(* Network, display, input, serial lines, sound, monitors.                 *)
(***************************************************************************)
NetDevice(c) ==
    IF c.networkDevice \in {"", "virtio-net", "virtio-net-pci"} THEN "virtio-net-device" ELSE c.networkDevice
NetArgs(c) ==
    IF c.nographic \/ NetDevice(c) = "none" THEN <<Flag("-net", "none")>>
    ELSE <<Backend("-netdev", IF c.display = "vnc,websocket" THEN "user" ELSE "user,hostfwd", "n0"),
           Device(NetDevice(c), {"front.n0"}, {"n0"})>>

VncAvailable(c, f) == DataDir(c, f) # "" /\ f.keymaps = "whole"
Display(c, f) ==
    IF ~VncAvailable(c, f) THEN "none" ELSE IF c.display = "" THEN "vnc" ELSE c.display
DisplayArgs(c, f) ==
    IF Display(c, f) \in {"vnc", "vnc,websocket"} THEN <<Flag("-vnc", "vnc")>>
    ELSE <<Flag("-display", Display(c, f))>>

\* No VGA adapter of a PC on this machine: they become a plain frame buffer.
VideoModel(device) ==
    CASE device \in {"virtio-gpu", "virtio-gpu-pci"} -> "virtio-gpu-device"
      [] device \in {"virtio-gpu-gl", "virtio-gpu-gl-pci", "virtio-vga", "qxl-vga", "cirrus-vga", "VGA"} -> "ramfb"
      [] OTHER -> device
VideoArgs(c, f) ==
    LET wanted == IF c.installMode THEN "ramfb"
                  ELSE IF c.displayDevice \in {"", "auto", "none"} THEN "virtio-gpu" ELSE c.displayDevice
    IN IF Display(c, f) = "none" THEN <<>> ELSE <<Device(VideoModel(wanted), {"video"}, {})>>

(* Mutant: the input devices bring their controller, the ISO's or not.     *)
XhciAlways(c, f) == TRUE

XhciWanted(c, f) == ~(IsoReadable(c, f) /\ OnVirt(c))

InputArgs(c, f) ==
    IF Display(c, f) = "none" \/ ~OnVirt(c) THEN <<>>
    ELSE (IF XhciWanted(c, f) THEN <<Xhci>> ELSE <<>>)
         \o <<Device("usb-tablet", {}, {"xhci"}), Device("usb-kbd", {}, {"xhci"})>>

SerialArgs == <<Backend("-serial", "tcp", "port4321"), Flag("-serial", "file")>>
ConsoleArgs(c, f) ==
    IF c.nographic THEN <<Flag("-nographic", "")>> \o SerialArgs
    ELSE DisplayArgs(c, f) \o VideoArgs(c, f) \o InputArgs(c, f) \o SerialArgs

IsaSound == {"sb16", "es1370", "gus", "adlib", "cs4231a"}
Hda(model) == <<Device(model, {"hda"}, {}), Device("hda-duplex", {}, {"hda", "snd0"})>>
AudioArgs(c) ==
    IF c.audioDevice \in {"", "none"} THEN <<>>
    ELSE <<Backend("-audiodev", "aether-soundkit-hmos", "snd0")>>
         \o (CASE c.audioDevice \in IsaSound -> <<>>
               [] c.audioDevice \in {"hda", "intel-hda"} -> Hda("intel-hda")
               [] c.audioDevice \in {"ich9-hda", "ich9-intel-hda"} -> Hda("ich9-intel-hda")
               [] c.audioDevice = "ac97" -> <<Device("AC97", {}, {"snd0"})>>
               [] OTHER -> <<Device(c.audioDevice, {}, {})>>)

MonitorArgs == <<Backend("-qmp", "unix", "qmp"), Flag("-monitor", "none")>>

BuildQemuArgs(c, f, vars) ==
    IF ~Supported(c) THEN <<>>
    ELSE DataDirArgs(c, f) \o MachineArgs(c) \o RngArgs(c) \o TpmArgs(c) \o CpuArgs(c)
         \o FirmwareArgs(f, vars) \o SataArgs(c, f) \o IsoArgs(c, f) \o DiskArgs(c, f)
         \o LogArgs \o NetArgs(c) \o ConsoleArgs(c, f) \o AudioArgs(c) \o MonitorArgs

=============================================================================
