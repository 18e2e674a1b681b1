SPECIFICATION StartupSpec
CONSTANTS
  dev = dev
  net = net
  opt = opt
  null = null
  tun = tun
  disk = disk
  proc = proc
  sys = sys
  Dirs = {dev, net, opt}
  Devices = {null, tun, disk}
  Paths = {proc, sys}
  DirsOf <- DevicePaths
  TypeOf <- FifoTypes
  Present = {}
  Written = {}
  PATH = PATH
  HOME = HOME
  NoKey = NoKey
  Unset = Unset
  sh = sh
  x = x
  home = home
  big = big
  huge = huge
  rest = rest
  Keys = {PATH, HOME}
  Strings = {sh, x, home, big, huge, rest}
  Long = {big, huge}
  Full = {huge}
  Garbage = big
  HomeDirs = {home}
  ArgLists <- SpecArgs
  EnvLists <- SpecEnv
  ArgsLen = 3
  Inherited = {"lxc"}
INVARIANT OnlyStdio
VIEW View
