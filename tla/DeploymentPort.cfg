SPECIFICATION Spec
CONSTANTS
  Number <- MCNumber
  Unset = Unset
  Garbled = Garbled
  Urls = {"a"}
  Versions = {"2022"}
  Databases = {"sales"}
  Blank = " "
  Environments <- MCEnvironments
  Installed <- MCInstalled
  Hosts = {"h"}
  Ports = {"3000"}
  Origins = {"*"}
INVARIANT PortStarts
