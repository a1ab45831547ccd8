----------------------------- MODULE InputDevices -----------------------------
(***************************************************************************)
(* What an extension is told of the device a key came from: the table of   *)
(* devices that is read while RDKShell starts (linuxinput.cpp), the type   *)
(* and mode that Essos' metadata is turned into (processInputMetadata of   *)
(* essosinstance.cpp) and the listeners a display broadcasts them to.      *)
(***************************************************************************)
EXTENDS Naturals, Sequences, FiniteSetsExt

CONSTANTS
    DeviceFiles,   \* configurations, and Unread if there is none that can be read
    Unread,
    Devices,       \* what Essos says: [vendor, product, path, number, filterCode]
    ExtendedIr     \* RDKSHELL_ENABLE_KEY_METADATA_EXTENDED_SUPPORT_FOR_IR

NoPath == ""

GenericLinuxInputDev == 254
Generic_IR           == 240
VNC_Client           == 224
FrontPanel           == 255

NoTrackPadNorSlider == 1 + 2

\* Of a file, the entries of devices, [formed, vendor, product, path, type, mode],
\* and the mapping's, [formed, filterCode, type].  One is formed if it has the
\* members it must have and they are of the right types; a member that may be
\* left out is 0 or NoPath then.
ASSUME InputDevicesAssumption ==
    /\ \A device \in Devices : {device.vendor, device.product, device.number} \subseteq Nat
    /\ \A file \in DeviceFiles \ {Unread} :
          /\ {DOMAIN file.devices, DOMAIN file.mapping} \subseteq SUBSET (Nat \ {0})
          /\ \A i \in DOMAIN file.devices :
                {file.devices[i].type, file.devices[i].mode} \subseteq 0..255
    /\ ExtendedIr \in BOOLEAN

VARIABLES
    deviceFile,
    gRdkShellInputDevices,
    gIrInputDeviceTypeMapping,
    mEnableKeyMetadata,       \* of the display that gets the keys
    mInputEventsEnabled,
    ready,                    \* the configuration has been read, if there is one
    event                     \* the last key broadcast: [device, type, mode]

devicesVars == <<deviceFile, gRdkShellInputDevices, gIrInputDeviceTypeMapping,
                 mEnableKeyMetadata, mInputEventsEnabled, ready, event>>

NoEvent == [type |-> 0, mode |-> 0]

DevicesInit ==
    /\ deviceFile \in DeviceFiles
    /\ gRdkShellInputDevices = <<>>
    /\ gIrInputDeviceTypeMapping = <<>>
    /\ mEnableKeyMetadata = FALSE
    /\ mInputEventsEnabled = TRUE
    /\ ready = FALSE
    /\ event = NoEvent

-----------------------------------------------------------------------------

\* The vectors keep the formed entries in the order of the file, here each at
\* its place in the file.
Formed(entries) == [i \in {j \in DOMAIN entries : entries[j].formed} |-> entries[i]]

ReadInputDevices ==
    /\ ~ready
    /\ ready' = TRUE
    /\ IF deviceFile = Unread
         THEN UNCHANGED <<gRdkShellInputDevices, gIrInputDeviceTypeMapping>>
         ELSE /\ gRdkShellInputDevices' = Formed(deviceFile.devices)
              /\ gIrInputDeviceTypeMapping' = Formed(deviceFile.mapping)
    /\ UNCHANGED <<deviceFile, mEnableKeyMetadata, mInputEventsEnabled, event>>

\* find_if: the first of the places, or none, which is 0
First(places) == IF places = {} THEN 0 ELSE Min(places)

ByPath(device) ==
    {i \in DOMAIN gRdkShellInputDevices : gRdkShellInputDevices[i].path = device.path}

ByIds(device) ==
    {i \in DOMAIN gRdkShellInputDevices : /\ gRdkShellInputDevices[i].vendor = device.vendor
                                         /\ gRdkShellInputDevices[i].product = device.product}

BugEntryOf(device) == First(ByPath(device) \cup ByIds(device))

\* A device without ids is looked up by its path, if it has one.
EntryOf(device) ==
    IF device.vendor = 0 /\ device.product = 0 /\ device.path # NoPath
      THEN First(ByPath(device))
      ELSE First(ByIds(device))

inputDeviceTypeAndMode(device) ==
    LET i == EntryOf(device)
    IN  IF i = 0 THEN [type |-> GenericLinuxInputDev, mode |-> 0]
        ELSE [type |-> gRdkShellInputDevices[i].type, mode |-> gRdkShellInputDevices[i].mode]

modeSettingForDev(type, mode) ==
    CASE type \in {GenericLinuxInputDev, Generic_IR} -> NoTrackPadNorSlider
      [] type \in {VNC_Client, FrontPanel}           -> 255
      [] OTHER                                       -> mode

irDeviceType(filterCode) ==
    LET i == First({j \in DOMAIN gIrInputDeviceTypeMapping :
                      gIrInputDeviceTypeMapping[j].filterCode = filterCode})
    IN  IF i = 0 THEN Generic_IR ELSE gIrInputDeviceTypeMapping[i].type

\* The mode is that of an infrared device also where the type is mapped.
processInputMetadata(device) ==
    LET found == inputDeviceTypeAndMode(device)
    IN  [device |-> device,
         type   |-> IF ExtendedIr /\ found.type = Generic_IR THEN irDeviceType(device.filterCode)
                                                             ELSE found.type,
         mode   |-> modeSettingForDev(found.type, found.mode)]

Key(device) ==
    /\ ready
    /\ event' = IF mInputEventsEnabled /\ mEnableKeyMetadata THEN processInputMetadata(device)
                                                             ELSE event
    /\ UNCHANGED <<deviceFile, gRdkShellInputDevices, gIrInputDeviceTypeMapping,
                   mEnableKeyMetadata, mInputEventsEnabled, ready>>

KeyMetadataListener(add) ==
    /\ mEnableKeyMetadata' = add
    /\ UNCHANGED <<deviceFile, gRdkShellInputDevices, gIrInputDeviceTypeMapping,
                   mInputEventsEnabled, ready, event>>

EnableInputEvents(enable) ==
    /\ mInputEventsEnabled' = enable
    /\ UNCHANGED <<deviceFile, gRdkShellInputDevices, gIrInputDeviceTypeMapping,
                   mEnableKeyMetadata, ready, event>>

DevicesNext ==
    \/ ReadInputDevices
    \/ \E device \in Devices : Key(device)
    \/ \E on \in BOOLEAN : KeyMetadataListener(on) \/ EnableInputEvents(on)

DevicesSpec == DevicesInit /\ [][DevicesNext]_devicesVars

-----------------------------------------------------------------------------

Named(entry, device) ==
    IF device.vendor = 0 /\ device.product = 0 THEN entry.path = device.path
    ELSE entry.vendor = device.vendor /\ entry.product = device.product

Anonymous(device) == device.vendor = 0 /\ device.product = 0 /\ device.path = NoPath

\* No key is told to come from another device's type: a type that is not the
\* default is from an entry of the file that names the device, or its infrared
\* code, except for a device that has neither ids nor a path, which takes the
\* first entry without ids.
NothingBorrowed ==
    event # NoEvent /\ event.type # GenericLinuxInputDev /\ ~Anonymous(event.device) =>
        \E i \in DOMAIN deviceFile.devices :
            LET entry == deviceFile.devices[i] IN
            /\ entry.formed /\ Named(entry, event.device)
            /\ \/ entry.type = event.type
               \/ /\ entry.type = Generic_IR
                  /\ \E j \in DOMAIN deviceFile.mapping :
                        /\ deviceFile.mapping[j].formed
                        /\ deviceFile.mapping[j].filterCode = event.device.filterCode
                        /\ deviceFile.mapping[j].type = event.type

=============================================================================
