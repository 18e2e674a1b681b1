SPECIFICATION Spec
CONSTANTS
  dev = dev
  net = net
  opt = opt
  null = null
  tun = tun
  disk = disk
  proc = proc
  sys = sys
  Dirs = {dev, net, opt}
  Devices = {null, tun, disk}
  Paths = {proc, sys}
  DirsOf <- DevicePaths
  TypeOf <- DeviceTypes
  Present = {dev}
  Written = {"devices.txt", "masked.txt"}
INVARIANT FailsOnlyOnFailure
