------------------------------- MODULE VmBoot -------------------------------
(***************************************************************************)
(* The starts of one VM over the life of its files: the page's copies of   *)
(* firmware and keymaps, StartVm under g_vmMutex up to the launch of the   *)
(* runner, qemu_init, and what happens to the files in between: guests,    *)
(* imports, disk tools, deletion, an ISO that goes away, a write that is   *)
(* cut short by an error or by the death of the process, a stat() that     *)
(* misses a file.                                                          *)
(*                                                                         *)
(* Files outlive the process; everything else starts anew with it.  Who    *)
(* may start and stop at the same time is VmRuntime's subject: here one    *)
(* caller runs one start to its end.                                       *)
(***************************************************************************)
EXTENDS VmConfig

CONSTANTS Hardware,   (* what the user may have configured for the VM        *)
          Images,     (* disk images the user may import                     *)
          Cores,      (* sets of symbols a library of the core may export    *)
          MaxStarts,  (* bound on the starts that reach the native code      *)
          MaxFaults   (* bound on failing calls, crashes and lost ISOs       *)

(* What the page stores for a VM, images that have a size, and libraries    *)
(* that export some of what the bridge looks up.                           *)
ASSUME BootAssumption ==
    /\ MaxStarts \in Nat /\ MaxFaults \in Nat
    /\ Hardware \subseteq [name : STRING, archType : STRING, isoPath : STRING, diskSizeGB : Int, machine : STRING,
                           displayDevice : STRING, networkDevice : STRING, audioDevice : STRING]
    /\ \A image \in Images : "size" \in DOMAIN image /\ image.size \in Nat \ {0}
    /\ \A symbols \in Cores : symbols \subseteq {"init", "loop", "mic"}

Required == {"init", "loop", "mic"}
Absent == {"absent"}

VARIABLES
  files,    (* code, template, vars, keymaps, disk, iso: what is on the      *)
            (* disk; stat: whether stat() works, fails, or did fail          *)
  data,     (* whether a guest or an import has written to the disk image    *)
  pc,       (* where the start is                                            *)
  config,   (* StartVm's config                                              *)
  attached, (* the variables file BuildQemuArgs settled on                   *)
  args,     (* the command line                                              *)
  core,     (* the symbols of g_qemu_core_handle, or Absent                  *)
  status,   (* g_vmStates                                                    *)
  starts,
  faults

bootVars == <<files, data, pc, config, attached, args, core, status, starts, faults>>
NoConfig == <<>>

NewFiles == [code |-> "absent", template |-> "absent", vars |-> "absent",
             keymaps |-> "absent", disk |-> NoImage, iso |-> "outside", stat |-> "works"]

BootInit ==
    /\ files = NewFiles
    /\ data = FALSE
    /\ pc = "idle"
    /\ config = NoConfig
    /\ attached = "none"
    /\ args = <<>>
    /\ core = Absent
    /\ status = "stopped"
    /\ starts = 0
    /\ faults = 0

Fault == faults < MaxFaults /\ faults' = faults + 1

(* StartVm returns false: nothing of the start is kept.                    *)
Abandon(verdict) ==
    /\ pc' = "idle"
    /\ config' = NoConfig
    /\ attached' = "none"
    /\ args' = <<>>
    /\ status' = verdict

-----------------------------------------------------------------------------
(***************************************************************************)
(* The page: ensureUefi, ensureKeymaps and the copy of the ISO, then       *)
(* startVM.  An existing firmware is taken as it is, and so is a copy of   *)
(* the ISO; a template that was cut may be recognised by its size.         *)
(* Keymaps count as available once any one was copied, and an ISO that     *)
(* cannot be copied is used where it is.                                   *)
(***************************************************************************)
EnsureUefi(f) ==
    {[f EXCEPT !.code = IF f.code = "absent" THEN "whole" ELSE f.code, !.template = t] :
        t \in {f.template} \cup (IF f.template \in {"absent", "cut"} THEN {"clean"} ELSE {})}

EnsureKeymaps(f, mode) ==
    IF mode = "debug" THEN {<<f, FALSE>>}
    ELSE IF f.keymaps = "whole" THEN {<<f, TRUE>>}
    ELSE {<<[f EXCEPT !.keymaps = "whole"], TRUE>>, <<f, TRUE>>, <<f, FALSE>>}

IsoToCopy(f, vm) == vm.isoPath # "" /\ f.iso = "outside"

EnsureIso(f, vm) ==
    \/ /\ files' = (IF IsoToCopy(f, vm) THEN [f EXCEPT !.iso = "copied"] ELSE f)
       /\ UNCHANGED faults
    \/ IsoToCopy(f, vm) /\ Fault /\ files' = f

(* Up to the directory and the configuration file of the VM, StartVm       *)
(* changes nothing that a later step reads but its status.                 *)
PageStarts(mode, vm) ==
    /\ pc = "idle"
    /\ starts < MaxStarts
    /\ \E f \in EnsureUefi(files) : \E keymaps \in EnsureKeymaps(f, mode) :
         LET c == ParseVMConfig(PageConfig(mode, vm, keymaps[2])) IN
         /\ EnsureIso(keymaps[1], vm)
         /\ ~StartRefused(mode, vm, files')
         /\ Parsed(c) /\ Supported(c)
         /\ config' = [c EXCEPT !.archType = "aarch64"]
    /\ pc' = "disk"
    /\ starts' = starts + 1
    /\ status' = "preparing"
    /\ UNCHANGED <<data, attached, args, core>>

(* A copy of the page is cut short, by a failing write or by the death of  *)
(* the process: no start comes of it.                                      *)
PageCopyCut ==
    /\ pc = "idle"
    /\ Fault
    /\ \/ files.code = "absent" /\ files' = [files EXCEPT !.code = "cut"]
       \/ files.template = "absent" /\ files' = [files EXCEPT !.template = "cut"]
       \/ files.keymaps = "absent" /\ files' = [files EXCEPT !.keymaps = "small"]
       \/ files.iso = "outside" /\ files' = [files EXCEPT !.iso = "cut"]
    /\ UNCHANGED <<data, pc, config, attached, args, core, status, starts>>

-----------------------------------------------------------------------------
(***************************************************************************)
(* StartVm.                                                                *)
(***************************************************************************)
CreateVirtualDisk(size) == files' = [files EXCEPT !.disk = Raw(size)] /\ data' = FALSE

(* Mutant: the image is created again on every start.                      *)
DiskWantedAlways == TRUE

DiskWanted == ~FileExists(files, "disk")

StartVmFindsDisk ==
    /\ pc = "disk"
    /\ ~DiskWanted
    /\ pc' = "preflight"
    /\ UNCHANGED <<files, data, config, attached, args, core, status, starts, faults>>

StartVmCreatesDisk ==
    /\ pc = "disk"
    /\ DiskWanted
    /\ CreateVirtualDisk(config.diskSizeGB)
    /\ pc' = "preflight"
    /\ UNCHANGED <<config, attached, args, core, status, starts, faults>>

(* open or ftruncate fails; after open the file has no bytes (any more).   *)
StartVmCannotCreateDisk ==
    /\ pc = "disk"
    /\ DiskWanted
    /\ Fault
    /\ CreateVirtualDisk(0) \/ UNCHANGED <<files, data>>
    /\ Abandon("failed")
    /\ UNCHANGED <<core, starts>>

(* Mutant: only the presence of the magic number is looked at.             *)
DiskAcceptedByMagic(image) == TRUE

DiskAccepted(image) ==
    FileExists(files, "disk") /\ IsQcow2FileQuick(image) => PreflightQcow2RefcountTable(image)

StartVmAcceptsDisk ==
    /\ pc = "preflight"
    /\ DiskAccepted(files.disk)
    /\ pc' = "build"
    /\ UNCHANGED <<files, data, config, attached, args, core, status, starts, faults>>

VerdictFailed == "failed"

StartVmRefusesDisk ==
    /\ pc = "preflight"
    /\ ~DiskAccepted(files.disk)
    /\ Abandon(VerdictFailed)
    /\ UNCHANGED <<files, data, core, starts, faults>>

(***************************************************************************)
(* BuildQemuArgs is pure but for the copy of the variables.                *)
(***************************************************************************)
Build(f, vars) ==
    /\ files' = f
    /\ attached' = vars
    /\ args' = BuildQemuArgs(config, f, vars)
    /\ pc' = "core"
    /\ UNCHANGED <<data, config, core, status, starts>>

VarsToUse == "vars"

BuildWithOwnVars ==
    /\ pc = "build"
    /\ VarsWanted(files)
    /\ ~NeedsReset(config, files)
    /\ Build(files, VarsToUse)
    /\ UNCHANGED faults

BuildWithCopiedVars ==
    /\ pc = "build"
    /\ VarsWanted(files)
    /\ NeedsReset(config, files)
    /\ Build([files EXCEPT !.vars = files.template], VarsToUse)
    /\ UNCHANGED faults

(* CopyFileTruncate fails, before or after it has created the copy: the    *)
(* template itself is attached, and not read-only.                         *)
BuildWithTemplate ==
    /\ pc = "build"
    /\ VarsWanted(files)
    /\ NeedsReset(config, files)
    /\ Fault
    /\ \E left \in {files.vars, "cut"} : Build([files EXCEPT !.vars = left], "template")

BuildWithoutVars ==
    /\ pc = "build"
    /\ ~VarsWanted(files)
    /\ Build(files, "none")
    /\ UNCHANGED faults

(***************************************************************************)
(* EnsureQemuCoreLoaded tries five places and takes the symbols of the     *)
(* first library that loads, if one does; a handle with qemu_init is never *)
(* loaded again.                                                           *)
(***************************************************************************)
AlreadyLoaded(symbols) == "init" \in symbols
CoresAfterLoading == IF AlreadyLoaded(core) THEN {core} ELSE Cores \cup {core}

(* What EnsureQemuCoreLoaded answers.                                      *)
EnsureQemuCoreLoaded(symbols) ==
    IF AlreadyLoaded(core) THEN "mic" \in symbols ELSE Required \subseteq symbols

Loaded(symbols) == EnsureQemuCoreLoaded(symbols) /\ {"init", "loop"} \subseteq symbols

StartVmLaunches ==
    /\ pc = "core"
    /\ core' \in CoresAfterLoading
    /\ Loaded(core')
    /\ pc' = "init"
    /\ status' = "starting"
    /\ UNCHANGED <<files, data, config, attached, args, starts, faults>>

StartVmFindsNoCore ==
    /\ pc = "core"
    /\ core' \in CoresAfterLoading
    /\ ~Loaded(core')
    /\ Abandon(VerdictFailed)
    /\ UNCHANGED <<files, data, starts, faults>>

-----------------------------------------------------------------------------
(***************************************************************************)
(* The runner: qemu_init exits, or returns and a guest runs.               *)
(***************************************************************************)
QemuInitExits ==
    /\ pc = "init"
    /\ Abandon("failed")
    /\ UNCHANGED <<files, data, core, starts, faults>>

QemuInitReturns ==
    /\ pc = "init"
    /\ pc' = "guest"
    /\ args' = <<>>
    /\ config' = NoConfig
    /\ status' = "running"
    /\ UNCHANGED <<files, data, attached, core, starts, faults>>

GuestWrites ==
    /\ pc = "guest"
    /\ data' = TRUE
    /\ files' = IF attached \in {"vars", "template"} THEN [files EXCEPT ![attached] = "guest"] ELSE files
    /\ UNCHANGED <<pc, config, attached, args, core, status, starts, faults>>

GuestEnds ==
    /\ pc = "guest"
    /\ Abandon("stopped")
    /\ UNCHANGED <<files, data, core, starts, faults>>

(* The process dies.  What it was writing is cut.                          *)
Crash ==
    /\ pc # "idle"
    /\ Fault
    /\ \/ UNCHANGED <<files, data>>
       \/ pc = "disk" /\ DiskWanted /\ CreateVirtualDisk(0)
       \/ /\ pc = "build" /\ VarsWanted(files) /\ NeedsReset(config, files)
          /\ files' = [files EXCEPT !.vars = "cut"] /\ UNCHANGED data
    /\ Abandon("stopped")
    /\ core' = Absent
    /\ UNCHANGED starts

-----------------------------------------------------------------------------
(***************************************************************************)
(* Between the starts.                                                     *)
(***************************************************************************)
ImportDisk(image) ==
    /\ pc = "idle"
    /\ ~Present(files, "disk")
    /\ files' = [files EXCEPT !.disk = image]
    /\ data' = TRUE
    /\ UNCHANGED <<pc, config, attached, args, core, status, starts, faults>>

(* deleteVM removes the files it knows of.                                 *)
DeleteVm ==
    /\ pc = "idle"
    /\ Present(files, "disk")
    /\ files' = [files EXCEPT !.disk = NoImage]
    /\ data' = FALSE
    /\ UNCHANGED <<pc, config, attached, args, core, status, starts, faults>>

QemuImgCreateDisk(overwrite) ==
    /\ pc = "idle"
    /\ overwrite \/ ~FileExists(files, "disk")
    /\ \/ CreateVirtualDisk(2) /\ UNCHANGED faults
       \/ CreateVirtualDisk(0) /\ Fault
    /\ UNCHANGED <<pc, config, attached, args, core, status, starts>>

(* qemu-img resizes any image but does not shrink it; without qemu-img a   *)
(* raw image is truncated to the size that was asked for.                  *)
QemuImgResizeDisk(size) ==
    /\ pc = "idle"
    /\ FileExists(files, "disk")
    /\ size >= files.disk.size \/ ~IsQcow2FileQuick(files.disk)
    /\ files' = [files EXCEPT !.disk.size = size]
    /\ data' = (data /\ size >= files.disk.size)
    /\ UNCHANGED <<pc, config, attached, args, core, status, starts, faults>>

IsoGoes ==
    /\ files.iso # "gone"
    /\ Fault
    /\ files' = [files EXCEPT !.iso = "gone"]
    /\ UNCHANGED <<data, pc, config, attached, args, core, status, starts>>

(* stat() begins to fail, or to work again, while somebody may call it.    *)
StatFails ==
    /\ pc \in {"idle", "disk", "preflight", "build"}
    /\ \/ files.stat # "fails" /\ Fault /\ files' = [files EXCEPT !.stat = "fails"]
       \/ files.stat = "fails" /\ files' = [files EXCEPT !.stat = "failed"] /\ UNCHANGED faults
    /\ UNCHANGED <<data, pc, config, attached, args, core, status, starts>>

BootNext ==
    \/ \E mode \in StartModes, vm \in Hardware : PageStarts(mode, vm)
    \/ StartVmFindsDisk \/ StartVmCreatesDisk \/ StartVmCannotCreateDisk
    \/ StartVmAcceptsDisk \/ StartVmRefusesDisk
    \/ BuildWithOwnVars \/ BuildWithCopiedVars \/ BuildWithTemplate \/ BuildWithoutVars
    \/ StartVmLaunches \/ StartVmFindsNoCore
    \/ QemuInitExits \/ QemuInitReturns \/ GuestWrites \/ GuestEnds
    \/ Crash \/ PageCopyCut \/ IsoGoes \/ StatFails
    \/ \E image \in Images : ImportDisk(image)
    \/ \E overwrite \in BOOLEAN : QemuImgCreateDisk(overwrite)
    \/ \E size \in 1 .. 2 : QemuImgResizeDisk(size)
    \/ DeleteVm

-----------------------------------------------------------------------------
BootTypeOK ==
    /\ pc \in {"idle", "disk", "preflight", "build", "core", "init", "guest"}
    /\ files.code \in {"absent", "cut", "whole"} /\ files.keymaps \in {"absent", "small", "whole"}
    /\ {files.template, files.vars} \subseteq {"absent", "cut", "clean", "guest"}
    /\ files.iso \in {"outside", "copied", "cut", "gone"} /\ files.stat \in {"works", "fails", "failed"}
    /\ data \in BOOLEAN
    /\ attached \in {"none", "vars", "template"} /\ core \in (SUBSET Required) \cup {Absent}
    /\ status \in {"stopped", "preparing", "starting", "running", "failed"}
    /\ starts \in 0 .. MaxStarts /\ faults \in 0 .. MaxFaults

(* Every option finds what it refers to among the options before it, and   *)
(* no name is given twice: BuildQemuArgs adds controllers, backends and    *)
(* devices in places far apart, and QEMU exits on the first bad one.  And   *)
(* the core it is handed to exports all that a run needs, however many      *)
(* loads failed before.                                                     *)
CommandLineSound ==
    /\ BootTypeOK
    /\ pc = "init" =>
         \A i \in DOMAIN args :
           LET before == UNION {args[j].holds : j \in 1 .. i - 1}
           IN args[i].needs \subseteq before /\ args[i].holds \cap before = {}
    /\ pc \in {"init", "guest"} => Required \subseteq core

(* No two devices ask for the same place in the boot order.                *)
BootIndexUnique ==
    pc = "init" =>
      \A i, j \in DOMAIN args : i # j => args[i].boot \cap args[j].boot = {}

(* A damaged qcow2 image never reaches QEMU, which would exit on it,       *)
(* unless stat() missed it once, when the preflight is passed over; and    *)
(* unless some call failed or a file went away, everything on the command  *)
(* line is whole, and what the guest may write is the VM's own.            *)
FilesUsable ==
    pc = "init" =>
      /\ files.stat = "works" /\ files.disk.qcow2 => files.disk.rest = 0 /\ files.disk.entry # 0
      /\ faults = 0 =>
           \A file \in UNION {args[i].opens : i \in DOMAIN args} :
             \/ file = <<"code", "ro">> /\ files.code = "whole"
             \/ file = <<"vars", "rw">> /\ files.vars \in {"clean", "guest"}
             \/ file = <<"disk", "rw">> /\ files.disk.size > 0
             \/ file = <<"iso", "ro">> /\ files.iso \in {"outside", "copied"}

(* As long as stat() finds the image, what a guest or an import wrote to   *)
(* it goes only by a request to delete, overwrite or shrink it: never by a *)
(* start, a crash or a retry.  While stat() fails on it, which the         *)
(* comments of BuildQemuArgs expect in the sandbox, StartVm and a disk     *)
(* tool that must not overwrite create the disk again over the image.      *)
DiskMissed == files.stat = "fails" /\ (pc = "disk" \/ QemuImgCreateDisk(FALSE))

GuestDataKept ==
    [][data /\ ~data' =>
         \/ DeleteVm \/ QemuImgCreateDisk(TRUE) \/ DiskMissed
         \/ \E size \in 1 .. 2 : size < files.disk.size /\ QemuImgResizeDisk(size)]_bootVars

BootSpec == BootInit /\ [][BootNext]_bootVars

=============================================================================
